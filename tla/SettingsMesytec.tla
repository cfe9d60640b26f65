--------------------------- MODULE SettingsMesytec --------------------------
(***************************************************************************)
(* The settings of the Mesytec modules. They share what mesytec_mxdc32.c   *)
(* and, for the MDPPs, mesytec_mdpp.c do with them; these are the drivers  *)
(* that a new configuration can be given to while they run. A driver       *)
(* refuses some combinations by ending the program.                        *)
(***************************************************************************)
EXTENDS Settings, Naturals

MxdcSettings == {"blt_mode", "init_sleep"}

MxdcSlow(m, c) == Reset(Keep(m, c, [my_blt_mode |-> {"blt_mode"}]))
MxdcFast(m, c) ==
    Write(Keep(m, c, [my_data_len_format |-> {"my_blt_mode"}]), c,
          [data_len_format |-> {"my_blt_mode"}])
BankOperation(m, c) == Write(m, c, [bank_operation |-> {"banks_operation"}])

MxdcAdcCreate(m, c) == Keep(m, c, [my_auto_pedestals |-> {"auto_pedestals"}])

Toggle == 2
BanksRefused(c) == c.banks_operation = Toggle  \* by the MQDC32 and MTDC32

(* Thresholds are those of the enabled channels, or as high as they go.    *)
Thresholds(m, c) ==
    Write(Keep(m, c, [my_channel_mask |-> {"channel_enable"}]), c,
          [threshold |-> {"my_channel_mask", "threshold"}])

-----------------------------------------------------------------------------
Madc32Settings ==
    MxdcSettings \cup {"auto_pedestals", "banks_operation", "channel_enable",
                       "hires", "nim_busy", "range", "resolution", "threshold",
                       "gate_time", "gate_width"}

(* nim_busy is 1 for "busy". A new firmware ("fw_new", which is no setting)*)
(* is busy also when its buffer is full.                                   *)
Madc32Fast(m, c) ==
    LET t == Thresholds(BankOperation(MxdcFast(m, c), c), c)
        w == Write(t, c, [adc_resolution |-> {"resolution", "hires"},
                          hold_delay0 |-> {"gate_time"},
                          hold_width0 |-> {"gate_width"},
                          input_range |-> {"range"},
                          nim_busy |-> {"nim_busy"}])
    IN WriteIf(On(c, "nim_busy") /\ On(c, "fw_new"), w, c, [ecl_busy |-> {}])

Mqdc32Settings ==
    MxdcSettings \cup {"auto_pedestals", "banks_operation", "channel_enable",
                       "exp_trig", "exp_trig_delay0", "exp_trig_delay1",
                       "gate_input", "threshold"}
ExpOff == 0
ExpEcl == 1
ExpNim == 2

Mqdc32Fast(m, c) ==
    LET t == Thresholds(BankOperation(MxdcFast(m, c), c), c)
        g == Write(t, c, [gate_select |-> {"gate_input"},
                          nim_gat1_osc |-> {"gate_input"}])
        e == WriteIf(c.exp_trig = ExpEcl, g, c, [ecl_fc_reset |-> {}])
        n == WriteIf(c.exp_trig = ExpNim, e, c, [nim_fc_reset |-> {}])
    IN WriteIf(c.exp_trig # ExpOff, n, c,
               [exp_trig_delay0 |-> {"exp_trig_delay0"},
                exp_trig_delay1 |-> {"exp_trig_delay1"}])

Mtdc32Settings ==
    MxdcSettings \cup {"banks_operation", "trigger_input", "only_first_hit",
                       "resolution", "pulser_enabled", "gate_time", "gate_width"}
Mtdc32Fast(m, c) ==
    LET w == Write(m, c, [bank_win_start |-> {"gate_time"},
                          bank_win_width |-> {"gate_width"},
                          tdc_resolution |-> {"resolution"},
                          trig_select |-> {"trigger_input"},
                          pulser_status |-> {"pulser_enabled"},
                          first_hit |-> {"only_first_hit"}])
    IN BankOperation(MxdcFast(w, c), c)

-----------------------------------------------------------------------------
(* The MDPPs. What the inputs and outputs are used for:                    *)
(* nim_2 and ecl_2 may be the second trigger, nim_2 and ecl_1 the reset,   *)
(* nim_3 and ecl_2 the clock, nim_4 and ecl_3 the first trigger.           *)
NimTrig1 == 1
NimReset == 2
Sync == 1
EclTrig1 == 2

MdppSettings ==
    MxdcSettings \cup
    {"auto_pedestals", "threshold", "gate_time", "gate_width", "nim_0", "nim_2",
     "nim_3", "nim_4", "ecl_0", "ecl_1", "ecl_2", "ecl_3", "use_termination",
     "clock_input", "only_first_hit", "monitor_on", "monitor_channel",
     "monitor_wave", "pulser_enabled", "pulser_amplitude", "trigger_output",
     "trigger_input", "reset_time"}

HasClock(c) == {x \in {"nim_3", "ecl_2"} : c[x] = Sync}
HasReset(c) == {x \in {"nim_2"} : c[x] = NimReset} \cup {x \in {"ecl_1"} : On(c, x)}
HasT0(c) == {x \in {"nim_4", "ecl_3"} : On(c, x)}
HasT1(c) == {x \in {"nim_2"} : c[x] = NimTrig1} \cup {x \in {"ecl_2"} : c[x] = EclTrig1}

(* What starts the window: nothing, a channel (1), or an input.            *)
NoTrigger == 0
ByT0 == 2
ByT1 == 3

(* The inputs are numbered 35 and 36, which is so with 32 channels only.   *)
MdppRefuses(m, c, ch) ==
    LET trigger == m.my.my_trigger_input.trigger_input IN
    \/ \E has \in {HasClock(c), HasReset(c), HasT0(c), HasT1(c)} :
         \E x, y \in has : x # y
    \/ ch = 32 /\ trigger = ByT0 /\ HasT0(c) = {}
    \/ ch = 32 /\ trigger = ByT1 /\ HasT1(c) = {}
    \/ On(c, "clock_input") /\ HasClock(c) = {}
    \/ On(c, "monitor_on") /\ (c.nim_2 # 0 \/ c.nim_3 # 0)

MdppSlowRefuses(c, ch) ==
    ch = 16 /\ ((c.trigger_input = NoTrigger) <=> (c.trigger_channel = 0))

MdppCreate(m, c) == Keep(m, c, [my_auto_pedestals |-> {"auto_pedestals"}])

MdppInputs(m, c) ==
    Write(m, c, [nim0 |-> {"nim_0"}, nim2 |-> {"nim_2"}, nim3 |-> {"nim_3"},
                 nim4 |-> {"nim_4"},
                 ecl0 |-> {"ecl_0", "use_termination"},
                 ecl1 |-> {"ecl_1", "use_termination"},
                 ecl2 |-> {"ecl_2", "use_termination"},
                 ecl3 |-> {"ecl_3", "use_termination"}])
MdppClock(m, c) ==
    WriteIf(On(c, "clock_input"), m, c,
            [ts_sources |-> {"nim_2", "ecl_1"}, marking_type |-> {"clock_input"}])
MdppFast(m, c) ==
    LET t == Write(MxdcFast(m, c), c, [threshold |-> {"threshold"}])
        k == Keep(t, c, [my_gate_width |-> {"gate_width"}])
        g == Write(k, c, [win_start |-> {"gate_time"}, win_width |-> {"my_gate_width"}])
    IN Write(MdppClock(MdppInputs(g, c), c), c,
             [first_hit |-> {"only_first_hit"}, monitor_on |-> {"monitor_on"},
              set_mon_channel |-> {"monitor_channel"}, set_wave |-> {"monitor_wave"},
              pulser_status |-> {"pulser_enabled"},
              pulser_amplitude |-> {"pulser_amplitude"}])

(* The trigger is for init_slow, as it "can be set ambiguously".           *)
MdppSlow(m, c, ch) ==
    LET n == Keep(MxdcSlow(m, c), c, [my_trigger_input |-> {"trigger_input"}])
        w == Write(n, c, [trigger_output |-> {"trigger_output"},
                          trig_source |-> {"my_trigger_input"},
                          reset_time |-> {"reset_time"}])
    IN WriteIf(ch = 16, w, c, [trig_source_2 |-> {"trigger_channel"}])

ScpSettings == MdppSettings \cup {"resolution_adc", "resolution_tdc", "pole_zero",
                                  "differentiation", "gain", "shaping_time", "blr",
                                  "signal_risetime"}
Scp16Settings == ScpSettings \cup {"trigger_channel"}
Scp32Settings == ScpSettings \cup {"samples_pre", "samples_tot"}

(* A resolution of the ADC that it does not have; a gate that is too wide  *)
(* (1) for the finest resolution of the times (0).                         *)
NoResolution == 2
ScpRefuses(c) ==
    \/ c.resolution_adc = NoResolution
    \/ On(c, "gate_width") /\ ~On(c, "resolution_tdc")

ScpChannels(m, c) ==
    Write(m, c, [tf_int_diff |-> {"differentiation"}, gain |-> {"gain"},
                 shaping_time |-> {"shaping_time"}, blr |-> {"blr"},
                 signal_rise_time |-> {"signal_risetime"}, pz |-> {"pole_zero"}])
ScpResolutionIfSet(m, c) ==  \* mutant: the default is not written
    WriteIf(c.resolution_adc # 0, Write(m, c, [tdc_resolution |-> {"resolution_tdc"}]),
            c, [adc_resolution |-> {"resolution_adc"}])
ScpResolution(m, c) ==
    Write(m, c, [adc_resolution |-> {"resolution_adc"},
                 tdc_resolution |-> {"resolution_tdc"}])

(* Without triggers ("free_running", a setting of the crate) events are    *)
(* marked with the time.                                                   *)
Scp16Fast(m, c) ==
    LET w == ScpResolution(ScpChannels(MdppFast(m, c), c), c)
    IN WriteIf(On(c, "free_running"), w, c, [output_format |-> {}, marking_type |-> {}])
Scp32Fast(m, c) ==
    LET s == Write(ScpChannels(MdppFast(m, c), c), c,
                   [pre_samples |-> {"samples_pre"}, tot_samples |-> {"samples_tot"}])
    IN WriteIf(On(c, "free_running"), ScpResolution(s, c), c,
               [output_format |-> {"samples_tot"}, marking_type |-> {}])

QdcSettings == MdppSettings \cup {"signal_width", "amplitude", "jumper_range",
                                  "qdc_jumper", "integration_long",
                                  "integration_short", "correction_long_gain",
                                  "correction_short_gain"}
Qdc16Settings == QdcSettings \cup {"correction_timing_filter_gain", "trigger_channel"}
Qdc32Settings == QdcSettings \cup {"resolution", "output_format"}

QdcChannels(m, c) ==
    Write(m, c, [signal_width |-> {"signal_width"}, input_amplitude |-> {"amplitude"},
                 jumper_range |-> {"jumper_range"}, qdc_jumper |-> {"qdc_jumper"},
                 integration_long |-> {"integration_long"},
                 integration_short |-> {"integration_short"},
                 long_gain_correction |-> {"correction_long_gain"},
                 short_gain_correction |-> {"correction_short_gain"}])
Qdc16Fast(m, c) ==
    Write(QdcChannels(MdppFast(m, c), c), c,
          [tf_gain_correction |-> {"correction_timing_filter_gain"}])
Qdc32Fast(m, c) ==
    Write(QdcChannels(MdppFast(m, c), c), c,
          [adc_resolution |-> {"resolution"}, output_format |-> {"output_format"}])

-----------------------------------------------------------------------------
(* The VMMR8 takes all of its settings when it is created, and keeps two   *)
(* that nobody looks at (trigger_output_src, trigger_output).              *)
VmmrSettings ==
    MxdcSettings \cup
    {"pulser_enabled", "pulser_amplitude", "active_buses", "timing_resolution",
     "nim_0", "nim_2", "nim_3", "ecl_0", "ecl_1", "ecl_2", "ecl_3", "gate_time",
     "gate_width", "mmr64_thrs_bank0", "mmr64_thrs_bank1", "zero_suppress",
     "trigger_channel", "use_external_trigger0", "use_external_trigger1",
     "trigger_output_src", "trigger_output"}

(* No such choice (2). The third ECL setting is not looked at.             *)
NoChoice == 2
VmmrRefuses(c) ==
    \E x \in {"nim_0", "nim_2", "nim_3", "ecl_0", "ecl_1", "ecl_3"} : c[x] = NoChoice

VmmrCreate(m, c) ==
    Keep(m, c,
         [my_pulser_enabled |-> {"pulser_enabled"},
          my_pulser_amplitude |-> {"pulser_amplitude"},
          my_active_buses |-> {"active_buses"},
          my_timing_resolution |-> {"timing_resolution"},
          my_nim_0 |-> {"nim_0"}, my_nim_2 |-> {"nim_2"}, my_nim_3 |-> {"nim_3"},
          my_ecl_0 |-> {"ecl_0"}, my_ecl_1 |-> {"ecl_1"}, my_ecl_2 |-> {"ecl_2"},
          my_ecl_3 |-> {"ecl_3"}, my_use_ext_trg0 |-> {"use_external_trigger0"},
          my_use_ext_trg1 |-> {"use_external_trigger1"},
          my_use_int_trg |-> {"trigger_channel"},
          my_gate_offset |-> {"gate_time"}, my_gate_width |-> {"gate_width"},
          my_thrs0 |-> {"mmr64_thrs_bank0"}, my_thrs1 |-> {"mmr64_thrs_bank1"},
          my_data_thrs |-> {"zero_suppress"}])
VmmrFast(m, c) ==
    Write(MxdcFast(m, c), c,
          [active_buses |-> {"my_active_buses"},
           timing_resolution |-> {"my_timing_resolution"},
           ext_trig_source |-> {"my_use_ext_trg0", "my_use_ext_trg1"},
           trig_source |-> {"my_use_int_trg"},
           win_start |-> {"my_gate_offset"}, win_width |-> {"my_gate_width"},
           nim3 |-> {"my_nim_3"}, nim2 |-> {"my_nim_2"}, nim0 |-> {"my_nim_0"},
           ecl3 |-> {"my_ecl_3"}, ecl2 |-> {"my_ecl_2"}, ecl1 |-> {"my_ecl_1"},
           ecl0 |-> {"my_ecl_0"},
           pulser_status |-> {"my_pulser_enabled"},
           pulser_amplitude |-> {"my_pulser_amplitude"},
           fe_bank0 |-> {"my_thrs0"}, fe_bank1 |-> {"my_thrs1"},
           fe_data_thrs |-> {"my_data_thrs"}])
=============================================================================
