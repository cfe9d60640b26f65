---------------------------- MODULE SettingsStruck --------------------------
(***************************************************************************)
(* The settings of the Struck modules.                                     *)
(***************************************************************************)
EXTENDS Settings, Naturals

(* Each of the three is reset whenever it is set up, not when it is mapped.*)
Sis3801Settings == {"channel_enable"}
Sis3801Fast(m, c) ==
    LET k == Keep(Reset(m), c, [my_channel_enable |-> {"channel_enable"}])
    IN Write(k, c, [copy_disable |-> {"my_channel_enable"}])

(* Only three frequencies between 12 and 50 MHz, only formats 24 and 32.   *)
Other == 3
Sis3820Settings == {"clk_freq"}
Sis3820Refuses(c) == c.clk_freq = Other
Sis3820Fast(m, c) == Write(Reset(m), c, [clock_source |-> {"clk_freq"}])

ScalerSettings == {"blt_mode", "latching", "data_format", "channel_enable"}
ScalerRefuses(c) == c.data_format = Other
ScalerCreate(m, c) ==
    Keep(m, c, [my_blt_mode |-> {"blt_mode"}, my_is_latching |-> {"latching"}])
ScalerFast(m, c) ==
    LET k == Keep(Reset(m), c, [my_data_format |-> {"data_format"},
                                my_channel_mask |-> {"channel_enable"}])
    IN Write(k, c, [op_mode |-> {"my_is_latching", "my_data_format"},
                    copy_disable |-> {"my_channel_mask"}])

-----------------------------------------------------------------------------
(* SIS 3316. "bits" are those of its ADCs, and "receiver" says whether it  *)
(* has one for the rataclock: no settings.                                 *)
TraceSettings ==
    {"sample_length", "pretrigger_delay", "sample_length_maw",
     "pretrigger_delay_maw", "sample_length_maw_e", "pretrigger_delay_maw_e",
     "gates"}
Sis3316Settings ==
    {"channels_to_read", "use_tau_correction", "use_external_trigger",
     "use_internal_trigger", "trigger_output", "use_dual_threshold",
     "use_external_gate", "use_external_veto", "discard_data",
     "discard_threshold", "offset", "energy_pickup", "internal_trigger_delay",
     "readout", "use_user_counter", "use_dithering", "use_auto_bank_switch",
     "use_rataclock", "use_rataclock_timestamp", "use_clock_from_vxs",
     "rataclock_receive_delay", "rataclock_clk_period",
     "rataclock_pulse_period_clk", "rataclock_use_auto_edge",
     "rataclock_expect_edge", "use_termination", "average_mode",
     "average_pretrigger", "average_length", "check_level", "blt_mode",
     "clk_freq", "ext_clk_freq", "tap_delay_fine_tune", "use_accumulator2",
     "use_accumulator6", "use_maw3", "use_maxe", "use_peak_charge",
     "write_traces_raw", "write_traces_maw", "write_traces_maw_energy",
     "write_histograms", "is_fpbus_master", "baseline_average",
     "baseline_delay", "range", "signal_decaytime", "signal_polarity",
     "use_cfd_trigger", "threshold", "threshold_high_e", "peak", "gap", "peak_e",
     "gap_e"}
    \cup TraceSettings

Mhz25 == 0
Mhz125 == 1
Mhz250 == 2
Long == 2        \* a trace of more than 65534 samples
Unsupported == 2 \* of the averaging modes and ranges

AsyncGate(c) == On(c, "use_internal_trigger") /\ On(c, "use_external_gate")
AutoBankSwitch(c) ==
    /\ On(c, "use_internal_trigger") /\ On(c, "use_auto_bank_switch")
    /\ ~On(c, "use_external_gate")

ConfigRefused(c) ==
    \/ c.clk_freq = Other \/ c.ext_clk_freq = Other
    \/ c.baseline_average = Other \/ c.average_mode = Unsupported
    \/ AutoBankSwitch(c) /\ c.sample_length = Long

(* What is kept: only what is still looked at by somebody.                 *)
Sis3316GetConfig(m, c) ==
    Keep(m, c,
         [my_channels_to_read |-> {"channels_to_read"}, my_do_readout |-> {"readout"},
          my_run_mode |-> {"use_internal_trigger"} \cup
              IF On(c, "use_internal_trigger")
              THEN {"use_external_gate", "use_auto_bank_switch"} ELSE {},
          my_blt_mode |-> {"blt_mode"}, my_check_level |-> {"check_level"},
          my_is_fpbus_master |-> {"is_fpbus_master"},
          my_clk_freq |-> {"clk_freq"}, my_ext_clk_freq |-> {"ext_clk_freq"},
          my_use_clock_from_vxs |-> {"use_clock_from_vxs"},
          my_use_rataclock |-> {"use_rataclock"},
          my_use_rataclock_timestamp |-> {"use_rataclock_timestamp"},
          my_rataclock_use_auto_edge |-> {"rataclock_use_auto_edge"},
          my_use_dithering |-> {"use_dithering"},
          my_discard_data |-> {"discard_data"},
          my_discard_threshold |-> {"discard_threshold"},
          my_use_accumulators |-> {"use_accumulator2", "use_accumulator6"},
          my_use_maw3 |-> {"use_maw3"}, my_average_length |-> {"average_length"}])

(* No correction of the decay for this frequency and these bits            *)
NoTauTable(c) ==
    /\ On(c, "use_tau_correction")
    /\ IF c.bits = 16 THEN c.clk_freq # Mhz125 ELSE c.clk_freq = Mhz25

RawLength(c) ==
    {"write_traces_raw"} \cup
    IF On(c, "write_traces_raw") THEN {"sample_length", "clk_freq"} ELSE {}
MawLength(c) ==
    {"write_traces_maw_energy"} \cup
    IF On(c, "write_traces_maw_energy") THEN {"sample_length_maw_e"}
    ELSE {"write_traces_maw"} \cup
         IF On(c, "write_traces_maw") THEN {"sample_length_maw"} ELSE {}
MawPretriggerPlain(c) == {"pretrigger_delay_maw"}  \* mutant: for energies too
MawPretrigger(c) ==
    {"write_traces_maw_energy"} \cup
    IF On(c, "write_traces_maw_energy") THEN {"pretrigger_delay_maw_e"}
    ELSE {"pretrigger_delay_maw"}
TauFactor(c) ==
    {"use_tau_correction"} \cup
    IF On(c, "use_tau_correction") THEN {"signal_decaytime", "clk_freq", "bits"} ELSE {}

CalculateSettings(m, c) ==
    Keep(m, c, [my_sample_length |-> RawLength(c), my_sample_length_maw |-> MawLength(c)])

-----------------------------------------------------------------------------
(* The clock, which init_slow and init_fast both set up                    *)
NoClockFrom25(m) ==
    /\ m.my.my_ext_clk_freq.ext_clk_freq # 0 /\ m.my.my_use_rataclock.use_rataclock = 0
    /\ m.my.my_clk_freq.clk_freq = Mhz25

SampleClockDist(m, c) ==
    LET s == Write(m, c, [sample_clock_distribution |->
                            {"my_is_fpbus_master", "my_ext_clk_freq",
                             "my_use_rataclock", "my_use_clock_from_vxs"}])
    IN WriteIf(m.my.my_is_fpbus_master.is_fpbus_master = 1, s, c,
               [fpbus_control |-> {"my_ext_clk_freq"}])
ExternalClock(m, c) ==
    IF m.my.my_use_rataclock.use_rataclock = 1 \/ m.my.my_ext_clk_freq.ext_clk_freq = 0
    THEN Write(m, c, [clock_multiplier |-> {}])
    ELSE Write(m, c, [clock_multiplier |-> {"my_ext_clk_freq", "my_clk_freq"}])
SetClockFrequency(m, c) == Write(m, c, [oscillator |-> {"my_clk_freq"}])

SetupAdcs(m, c) ==
    Write(m, c, [adc_spi |-> {"my_bit_depth", "my_use_dithering"}])

Sis3316SlowRefuses(m, c) ==
    \/ ~On(c, "receiver") /\ m.my.my_use_rataclock.use_rataclock = 1
    \/ NoClockFrom25(m)
    \/ c.bits = 14 /\ m.my.my_use_dithering.use_dithering = 1
Sis3316Slow(m, c) ==
    LET k == Keep(Reset(m), c, [my_bit_depth |-> {"bits"}, dma_map |-> {"my_blt_mode"}])
        s == SampleClockDist(k, c)
        external == \/ m.my.my_ext_clk_freq.ext_clk_freq # 0
                    \/ m.my.my_use_rataclock.use_rataclock = 1
    IN SetupAdcs(IF external THEN ExternalClock(s, c) ELSE SetClockFrequency(s, c), c)

Sis3316FastRefuses(c) ==
    \/ ConfigRefused(c) \/ NoTauTable(c)
    \/ c.ext_clk_freq # 0 /\ ~On(c, "use_rataclock") /\ c.clk_freq = Mhz25
    \/ c.bits = 14 /\ On(c, "use_dithering")
    \/ c.range = Unsupported
Sis3316Clock(m, c) ==
    LET s == SampleClockDist(m, c)
    IN SetupAdcs(IF c.ext_clk_freq # 0 THEN ExternalClock(s, c)
                 ELSE SetClockFrequency(s, c), c)

-----------------------------------------------------------------------------
Sis3316Triggers(m, c) ==
    Write(m, c,
          [offset_dac |-> {"offset"},
           tap_delay |-> {"my_clk_freq", "my_bit_depth", "tap_delay_fine_tune"},
           gain_termination |-> {"range", "use_termination"},
           trigger_thr_high_e |-> {"threshold_high_e", "range", "peak", "use_dual_threshold"},
           trigger_setup |-> {"peak", "gap"},
           trigger_threshold |-> {"threshold", "range", "peak", "use_cfd_trigger"},
           energy_pickup_config |-> {"energy_pickup"},
           fir_energy_setup |-> {"peak_e", "gap_e"} \cup TauFactor(c)])

Sis3316Buffers(m, c) ==
    LET w == Write(m, c,
               [trigger_gate_length |->
                  {"peak_e", "gap_e", "pretrigger_delay", "internal_trigger_delay",
                   "gates", "my_clk_freq", "my_sample_length", "my_sample_length_maw"},
                raw_data_buffer_config |-> {"my_sample_length"}])
    IN WriteIf(On(c, "write_traces_raw") /\ c.sample_length = Long, w, c,
               [ext_raw_data_buffer |-> {"my_sample_length"}])

Sis3316Gates(m, c) ==
    LET g == WriteIf(On(c, "use_accumulator6"), m, c,
                     [acc_gates_1_6 |-> {"gates", "my_clk_freq"}])
        h == WriteIf(On(c, "use_accumulator2"), g, c,
                     [acc_gates_7_8 |-> {"gates", "my_clk_freq"}])
    IN Write(h, c, [int_trigger_delay |-> {"internal_trigger_delay", "my_clk_freq"},
                    pretrigger_delay |-> {"pretrigger_delay", "internal_trigger_delay",
                                          "my_clk_freq"},
                    pileup_config |-> {"signal_decaytime", "my_clk_freq"}])

Sis3316Inputs(m, c) ==
    LET n == WriteIf(~On(c, "use_rataclock"), m, c,
               [nim_in_control |->
                  {"use_user_counter", "use_external_trigger", "use_external_gate",
                   "use_external_veto", "ext_clk_freq"}])
    IN Write(n, c,
             [rataser_control1 |-> {"rataclock_receive_delay", "rataclock_clk_period",
                                    "rataclock_pulse_period_clk"},
              rataser_control2 |-> {"rataclock_use_auto_edge", "rataclock_expect_edge"},
              lemo_out_uo_select |-> {"my_run_mode"},
              lemo_out_to_select |-> {"trigger_output"}])

(* An event is a header and what is to be written with it.                 *)
HeaderLength ==
    {"use_user_counter", "use_accumulator6", "use_accumulator2", "use_maw3",
     "use_maxe", "average_mode"}
Sis3316Events(m, c) ==
    LET k == Keep(m, c, [my_header_length |-> HeaderLength])
        e == Keep(k, c, [my_event_length |->
                           {"my_header_length", "my_sample_length",
                            "my_average_length", "my_sample_length_maw"}])
        h == Keep(e, c, [my_max_num_hits |->
                           {"my_run_mode", "my_event_length", "my_channels_to_read"}])
    IN Write(h, c,
             [event_config |-> {"signal_polarity", "use_external_gate",
                                "use_external_veto", "use_external_trigger",
                                "use_internal_trigger"},
              data_format_config |-> (HeaderLength \ {"average_mode"}) \cup
                                     {"write_traces_maw", "write_traces_maw_energy"},
              maw_test_config |-> {"my_sample_length_maw"} \cup MawPretrigger(c),
              average_config |-> {"average_mode", "average_pretrigger",
                                  "average_length"},
              end_addr_threshold |-> {"my_event_length", "my_max_num_hits"}])

Sis3316Run(m, c) ==
    LET a == Write(m, c, [acquisition_control |->
                            {"my_is_fpbus_master", "use_external_gate",
                             "use_internal_trigger", "my_run_mode"}])
    IN WriteIf(AutoBankSwitch(c), a, c, [bank_swap_with_nim_input |-> {}])

Sis3316Fast(m, c) ==
    LET k == CalculateSettings(Sis3316GetConfig(m, c), c)
        t == Sis3316Triggers(Sis3316Clock(k, c), c)
        g == Sis3316Gates(Sis3316Buffers(t, c), c)
    IN Sis3316Run(Sis3316Events(Sis3316Inputs(g, c), c), c)
=============================================================================
