----------------------------- MODULE SettingsGsi ----------------------------
(***************************************************************************)
(* The settings of the GSI modules: the chains of cards that a PEX reads   *)
(* (FEBEX, TAMEX, CTDC, KILOM, MPPC-ROB), each with one card, the VUPROM,  *)
(* the VFTX2, the white rabbit receivers and the CROS3 of a SAM. The       *)
(* settings of a card ("card_...") may be left to its module.              *)
(***************************************************************************)
EXTENDS Settings, Naturals

Inherit == 0
Inherited(c, card, module) == IF c[card] = Inherit THEN {module} ELSE {card}

(* What a gate spans: the time of the trigger, or not (2).                 *)
NotSpanned == 2

-----------------------------------------------------------------------------
FebexSettings ==
    {"gate_time", "gate_width", "clock_input", "signal_polarity",
     "trigger_method", "even_odd", "filter_trace", "trigger_filter",
     "energy_filter", "energy_filter_sums", "card_signal_polarity",
     "card_trigger_method", "card_even_odd", "card_filter_trace",
     "card_trigger_filter", "card_energy_filter", "card_energy_filter_sums",
     "channel_enable", "zero_suppress", "use_external_trigger", "threshold"}

FebexRefuses(c) == c.gate_time = NotSpanned

(* setting_override: "borked" values, then those of the module, then those *)
(* of the card; energy_filter is 1 for yes and 2 for no. It is on if it is *)
(* not set at all.                                                         *)
No == 2
EnergyFilterOn(c) == \A x \in Inherited(c, "card_energy_filter", "energy_filter") : c[x] # No
FebexFast(m, c) ==
    LET k == Keep(m, c, [my_trace_length |-> {"gate_width"},
                         my_do_filter_trace |->
                            Inherited(c, "card_filter_trace", "filter_trace")])
        w == Write(k, c,
               [trace_len |-> {"my_trace_length"}, trig_delay |-> {"gate_time"},
                self_trig |-> Inherited(c, "card_even_odd", "even_odd")
                              \cup Inherited(c, "card_signal_polarity", "signal_polarity")
                              \cup Inherited(c, "card_trigger_method", "trigger_method")
                              \cup {"use_external_trigger"},
                step_size |-> {"threshold"}, feb_time |-> {"clock_input"},
                data_reduction |-> {"zero_suppress"},
                mem_disable |-> {"channel_enable"},
                trig_sums |-> Inherited(c, "card_trigger_filter", "trigger_filter"),
                data_filt_control |-> {"my_do_filter_trace"}])
    IN WriteIf(EnergyFilterOn(c), w, c,
               [energy_sums |-> Inherited(c, "card_energy_filter_sums",
                                          "energy_filter_sums")])

-----------------------------------------------------------------------------
(* "model" is what the chain consists of, and no setting.                  *)
Backplane == 0
External == 1
OtherFreq == 2
TamexSettings ==
    {"data_reduction", "padi_or", "padi_combine", "long_range", "fifo_length",
     "gate_time", "gate_width", "clock_input", "ref_ch0", "threshold",
     "independent", "sync_ch", "card_gate_time", "card_padi_or",
     "card_padi_combine", "channel_enable", "test_pulse_channel",
     "test_pulse_delay", "test_pulse_freq"}

HasPadi(c) == c.model \in {"tamex2_padi", "tamex_padi1", "tamex4_padi"}
TamexRefuses(c) ==
    \/ c.gate_time = NotSpanned
    \/ c.model \in {"tamex2", "tamex2_padi"} /\ c.clock_input = Backplane
    \/ c.model = "tamex3" /\ c.clock_input = External
    \/ c.test_pulse_freq = OtherFreq
    \/ c.model # "tamex4_padi" /\ On(c, "test_pulse_channel")

(* The delay of the test pulse, at most 120 ns in steps of 8 ns, is        *)
(* divided by 120. A gate of the card that does not span 0 is inherited.   *)
TamexGate(c) ==
    {"long_range"} \cup IF c.card_gate_time = Inherit THEN {"gate_time", "gate_width"}
                        ELSE {"card_gate_time"}
TamexPadi(c) ==
    IF c.model = "tamex3" THEN {}
    ELSE Inherited(c, "card_padi_or", "padi_or")
         \cup Inherited(c, "card_padi_combine", "padi_combine")
TamexFast(m, c) ==
    LET k == Keep(m, c, [my_sync_ch |-> {"sync_ch"}])
        w == Write(k, c,
               [data_red |-> {"data_reduction"}, clk_sel |-> {"clock_input"},
                trg_win |-> TamexGate(c), trg_en |-> {"channel_enable"},
                ctrl |-> {"ref_ch0", "fifo_length"} \cup TamexPadi(c)])
        p == WriteIf(HasPadi(c), w, c, [padi_dat |-> {"threshold", "independent"}])
    IN WriteIf(c.model = "tamex4_padi", p, c,
               [misc1 |-> {"test_pulse_channel"},
                misc2 |-> {"test_pulse_channel"} \cup
                          IF On(c, "test_pulse_channel") THEN {"test_pulse_freq"} ELSE {}])

-----------------------------------------------------------------------------
(* CTDC, KILOM and MPPC-ROB share gsi_ctdc_proto. The extra channel (129)  *)
(* is set up only where it is read. The polarity of the CTDC and the KILOM *)
(* is written if it is to be switched, that of the MPPC-ROB always.        *)
CtdcProtoSettings ==
    {"data_format", "threshold_offset", "clock_input", "gate_time", "gate_width",
     "channel_enable", "trigger_enable", "channel4_enable", "trigger4_enable",
     "channels_to_read", "card_threshold_offset", "threshold", "invert_signal"}
CtdcSettings == CtdcProtoSettings \cup {"frontend"}
KilomSettings == CtdcProtoSettings \cup {"dark"}
MppcRobSettings == CtdcProtoSettings \cup {"version"}

CtdcProtoFast(m, c) ==
    LET w == Write(m, c,
               [time_reset |-> {"clock_input"}, ctdc_ctrl |-> {"data_format"},
                trig_delay |-> {"gate_time", "gate_width"},
                window_len |-> {"gate_width"},
                channel_disable |-> {"channel_enable"},
                trigger_disable |-> {"trigger_enable"}])
    IN WriteIf(On(c, "channels_to_read"), w, c,
               [channel_disable4 |-> {"channel4_enable"},
                trigger_disable4 |-> {"trigger4_enable"}])

PadiThresholds(c) ==
    {"threshold"} \cup Inherited(c, "card_threshold_offset", "threshold_offset")
CtdcFast(m, c) ==
    LET w == Write(CtdcProtoFast(m, c), c, [padi_spi |-> PadiThresholds(c) \cup {"frontend"}])
    IN WriteIf(On(c, "invert_signal"), w, c, [polarity |-> {}])
KilomThresholds(m, c) ==
    WriteIf(On(c, "invert_signal"), Write(m, c, [padi_spi |-> PadiThresholds(c)]), c,
            [polarity |-> {}])
KilomFast(m, c) == Write(KilomThresholds(CtdcProtoFast(m, c), c), c, [dark |-> {"dark"}])

NoVersion == 2
MppcRobRefuses(c) == c.version = NoVersion
MppcRobFast(m, c) ==
    Write(CtdcProtoFast(m, c), c, [padi_spi |-> PadiThresholds(c) \cup {"version"},
                                   polarity |-> {"invert_signal"}])

-----------------------------------------------------------------------------
VupromSettings == {"zero_suppress", "use_fifo", "gate_time", "gate_width"}
VupromFast(m, c) ==
    Write(Keep(m, c, [my_use_fifo |-> {"use_fifo"}]), c,
          [zero_suppress |-> {"zero_suppress"}, full_range |-> {"gate_width"}])

Vftx2Settings == {"trigger_input", "clock_input", "gate_time", "gate_width",
                  "channel_invert", "channel_enable"}
Vftx2Fast(m, c) ==
    Write(Keep(m, c, [my_channel_mask |-> {"channel_enable"}]), c,
          [cpld |-> {"trigger_input", "clock_input"},
           trigger_window |-> {"gate_time", "gate_width"},
           channel_invert |-> {"channel_invert"},
           channel_enable |-> {"my_channel_mask"},
           trigger_enable |-> {"my_channel_mask"}])

(* VETAR and PEXARIA: whether the module can be read directly is for the   *)
(* driver of the kernel to say ("dactl": no such file, can be switched,    *)
(* cannot be switched and is off).                                         *)
EtherboneSettings == {"mode"}
Direct == 0
ByEtherbone == 1
Switched == 1
CanBeDirect(c) == c.dactl = Switched
EtherboneCreate(m, c) == Keep(m, c, [my_mode |-> {"mode"}])
EtherboneSlow(m, c) ==
    Keep(m, c, [my_is_direct |-> {"dactl"} \cup IF CanBeDirect(c) THEN {"my_mode"} ELSE {}])
EtherboneRefuses(m, c) == m.my.my_mode.mode = Direct /\ ~CanBeDirect(c)

(* Before the crate is initialised the parameters of all CROS3s are        *)
(* written to a file for the program that loads them.                      *)
Cros3Settings ==
    {"time_after_trigger", "resolution", "slice_num", "threshold_begin",
     "threshold_step", "threshold", "test_pulse", "mode", "use_test_pulse",
     "statistics", "channel_enable"}
Cros3Create(m, c) ==
    Keep(m, c, [my_ddc |-> {"time_after_trigger"},
                my_drc |-> {"resolution", "slice_num"},
                my_thc |-> {"threshold_begin", "threshold_step"},
                my_thresholds |-> {"threshold"}, my_test_pulses |-> {"test_pulse"},
                my_trc |-> {"mode", "use_test_pulse", "statistics"},
                my_rewrite_data |-> {"mode"}, my_wim |-> {"channel_enable"}])
ParaWrite(m, c) ==
    Write(m, c, [csr_ddc |-> {"my_ddc"}, csr_drc |-> {"my_drc"}, csr_thc |-> {"my_thc"},
                 csr_th |-> {"my_thresholds"}, csr_tp |-> {"my_test_pulses"},
                 csr_trc |-> {"my_trc"}, csr_wim |-> {"my_wim"}])
=============================================================================
