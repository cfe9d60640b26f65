---------------------------- MODULE SettingsCaen ----------------------------
(***************************************************************************)
(* The settings of the CAEN modules: what each setup function keeps in the *)
(* driver and writes to the module.                                        *)
(***************************************************************************)
EXTENDS Settings

(* V775, V785, V785N, V792, V965                                           *)
V7nnSettings == {"auto_pedestals", "berr", "blt_mode", "channel_enable",
                 "sliding_scale", "suppress_over_range", "threshold"}
V775Settings == V7nnSettings \cup {"common_start", "suppress_invalid", "time_range"}
V792Settings == V7nnSettings \cup {"iped"}

V7nnCreate(m, c) == Keep(m, c, [my_auto_pedestals |-> {"auto_pedestals"}])

V7nnSlow(m, c) ==
    LET n == Keep(m, c, [my_blt_mode |-> {"blt_mode"}, my_do_berr |-> {"berr"}])
    IN Write(Reset(n), c, [control_1 |-> {"my_do_berr"}])

(* The bits of bit_set_2 one by one. Thresholds from 512 on need a coarser *)
(* scale, for all channels.                                                *)
ThresholdSet(m, c) ==
    Write(m, c, [bs2_fine_threshold |-> {"threshold"},
                 thresholds |-> {"my_channel_enable", "threshold"}])
V7nnFast(m, c) ==
    LET n == Keep(m, c, [my_channel_enable |-> {"channel_enable"}])
        w == Write(n, c, [bs2_sliding_scale |-> {"sliding_scale"},
                          bs2_over_range_incl |-> {"suppress_over_range"}])
    IN ThresholdSet(w, c)

V775Fast(m, c) ==
    Write(V7nnFast(m, c), c,
          [bs2_invalid_incl |-> {"suppress_invalid"},
           bs2_common_stop |-> {"common_start"},
           full_scale_range |-> {"time_range"}])
V792Fast(m, c) == Write(V7nnFast(m, c), c, [iped |-> {"iped"}])

(* V820, V830: with paux the board number comes from the crate.            *)
V8n0Settings == {"blt_mode", "channel_enable", "paux"}
V830Settings == V8n0Settings \cup {"resolution"}

V8n0Create(m, c) == Keep(m, c, [my_paux |-> {"paux"}])
V8n0Slow(m, c) ==
    Keep(WriteIf(m.my.my_paux["paux"] = 0, Reset(m), c, [geo |-> {}]), c,
         [my_blt_mode |-> {"blt_mode"}])
V820Fast(m, c) == Keep(m, c, [my_channel_mask |-> {"channel_enable"}])
V830Fast(m, c) ==
    LET n == Keep(m, c, [my_channel_mask |-> {"channel_enable"},
                         my_resolution |-> {"resolution"}])
    IN Write(n, c, [channel_enable |-> {"my_channel_mask"},
                    control_data_26_bits |-> {"my_resolution"},
                    control_berr_enable |-> {"my_blt_mode"}])

V560Fast(m, c) == Keep(m, c, [my_use_veto |-> {"use_veto"}])

V895Settings == {"channel_enable", "output_width_0_7", "output_width_8_15",
                 "threshold"}
V895Fast(m, c) ==
    Write(m, c, [threshold |-> {"threshold"},
                 output_width_0_to_7 |-> {"output_width_0_7"},
                 output_width_8_to_15 |-> {"output_width_8_15"},
                 pattern_inhibit |-> {"channel_enable"}])

(* The offset is limited by the width.                                     *)
V767ASlow(m, c) == Reset(m)
V767AFast(m, c) ==
    Write(m, c, [window_length |-> {"width"}, window_offset |-> {"offset", "width"}])

(* V1190, V1290: init_fast computes the codes, and caen_v1n90_micro_*      *)
(* passes them to the microcontrollers of all modules together, the window *)
(* only if there are triggers ("free_running", which is a setting of the   *)
(* crate).                                                                 *)
V1n90Settings == {"blt_mode", "deadtime", "edge", "gate_time", "gate_width",
                  "resolution"}
V1n90Slow(m, c) == Keep(Reset(m), c, [my_blt_mode |-> {"blt_mode"}])
V1n90Fast(m, c) ==
    Keep(m, c, [my_gate_offset |-> {"gate_time"}, my_gate_width |-> {"gate_width"},
                my_edge_code |-> {"edge"}, my_resolution_code |-> {"resolution"},
                my_deadtime_code |-> {"deadtime"}])
MicroWindow(m, c) ==
    LET w == Write(m, c, [acq_mode |-> {"free_running"}])
    IN WriteIf(~On(c, "free_running"), w, c,
               [win_width |-> {"my_gate_width"}, win_offset |-> {"my_gate_offset"}])
MicroInitSlow(m, c) ==
    Write(MicroWindow(m, c), c,
          [detection |-> {"my_edge_code"}, tr_lead_lsb |-> {"my_resolution_code"},
           dead_time |-> {"my_deadtime_code"}])

(* V1725: the range of an input is one of the things that its thresholds   *)
(* and charges are converted with. The last write of init_fast starts the  *)
(* acquisition, and is to the register that the clock was chosen in.       *)
V1725Settings ==
    {"blt_mode", "berr", "blt_ext", "range", "sample_length",
     "aggregate_num", "pretrigger_delay", "zero_suppress", "gate_short",
     "gate_long", "gate_offset", "baseline_fixed", "internal_trigger_delay",
     "internal_trigger_width", "internal_trigger_holdoff", "threshold_psd",
     "threshold_pur_gap", "baseline_freeze", "cfd_delay", "cfd_fraction",
     "cfd_width", "threshold", "offset", "clock_input", "trigger_channel",
     "majority_width", "majority_level", "trigger_input", "lemo",
     "trigger_output", "lvds", "channel_enable", "charge", "pedestal",
     "trigout_all", "discrimination", "pileup_trigout", "test_pulse",
     "test_pulse_freq", "baseline_restart", "test_pulse_polarity",
     "trigger_method", "baseline_average", "use_internal_trigger",
     "suppress_pileup", "psd_cut_below", "psd_cut_above", "suppress_over_range",
     "trigger_hysteresis", "polarity_detection", "shaped_self_trigger",
     "pair_trigger_validation", "trigger_validation", "extra_word", "smoothing",
     "trigger_flag_downscale", "veto_source", "piggy_to_mobo", "mark_saturated",
     "veto_direct", "veto_width"}

V1725Slow(m, c) ==
    LET n == Keep(m, c, [my_blt_mode |-> {"blt_mode"}, my_do_berr |-> {"berr"},
                         my_do_blt_ext |-> {"blt_ext"}])
    IN Write(Reset(n), c, [readout_control |-> {"my_do_berr", "my_do_blt_ext"}])

V1725Inputs(m, c) ==
    Write(m, c,
          [input_dynamic_range |-> {"range"},
           record_length |-> {"sample_length"},
           number_of_events_per_aggregate |-> {"aggregate_num"},
           pre_trigger |-> {"pretrigger_delay"},
           charge_zero_suppression_threshold |-> {"zero_suppress"},
           short_gate_width |-> {"gate_short"}, long_gate_width |-> {"gate_long"},
           gate_offset |-> {"gate_offset"}, fixed_baseline |-> {"baseline_fixed"},
           trigger_latency |-> {"internal_trigger_delay"},
           shaped_trigger_width |-> {"internal_trigger_width"},
           trigger_hold_off_width |-> {"internal_trigger_holdoff"},
           threshold_for_the_psd_cut |-> {"threshold_psd"},
           pur_gap_threshold |-> {"threshold_pur_gap", "range"},
           early_baseline_freeze |-> {"baseline_freeze"},
           cfd_settings |-> {"cfd_delay", "cfd_fraction", "cfd_width"}])
V1725Levels(m, c) ==
    Write(m, c, [trigger_threshold |-> {"threshold", "range"},
                 dc_offset |-> {"offset"},
                 acquisition_control |-> {"clock_input"}])
V1725Triggers(m, c) ==
    LET n == Keep(m, c, [my_channel_enable |-> {"channel_enable"}])
    IN Write(n, c, [global_trigger_mask |-> {"trigger_channel", "majority_width",
                                             "majority_level", "trigger_input"},
                    front_panel_i_o_control |-> {"lemo", "trigger_output", "lvds"},
                    channel_enable_mask |-> {"my_channel_enable"}])

DppSettings ==
    {"charge", "pedestal", "trigout_all", "discrimination", "pileup_trigout",
     "test_pulse", "test_pulse_freq", "baseline_restart", "test_pulse_polarity",
     "trigger_method", "baseline_average", "use_internal_trigger", "zero_suppress",
     "suppress_pileup", "psd_cut_below", "psd_cut_above", "suppress_over_range",
     "trigger_hysteresis", "polarity_detection"}
V1725Dpp(m, c) ==
    Write(m, c, [dpp_algorithm_control |-> DppSettings \cup {"range"}])

(* A downscale of at most 16 is the same as none.                          *)
V1725Dpp2(m, c) ==
    Write(m, c, [dpp_algorithm_control_2 |->
                   {"shaped_self_trigger", "pair_trigger_validation",
                    "trigger_validation", "extra_word", "smoothing",
                    "piggy_to_mobo", "mark_saturated", "veto_source",
                    "veto_direct"}])
V1725Run(m, c) ==
    Write(m, c, [veto_width |-> {"veto_width"}, acquisition_control |-> {}])

V1725Fast(m, c) ==
    V1725Run(V1725Dpp2(V1725Dpp(V1725Triggers(V1725Levels(V1725Inputs(m, c), c), c), c), c), c)
=============================================================================
