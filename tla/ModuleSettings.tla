--------------------------- MODULE ModuleSettings ---------------------------
(***************************************************************************)
(* One module, of any driver, while its settings change: the program is    *)
(* started and ended, the crate is initialised, once more after a failure, *)
(* and a running crate is given new settings. What must not matter is the  *)
(* way on which the module came to the settings it has.                    *)
(***************************************************************************)
EXTENDS SettingsCaen, SettingsMesytec, SettingsGsi, SettingsStruck, FiniteSets

CONSTANT MaxEdits  \* bound: new settings

VARIABLES
    drv,      \* the driver
    cfg,      \* the settings in the configuration, and what is no setting
    phase,       \* "off" | "created" | "on" | "dead"
    mod,      \* the driver's structure and the hardware
    created,  \* the settings when the module was created
    slowed,   \* the settings when the crate was last initialised
    pending,  \* whether it is in module_configed_vec
    edits

settingsVars == <<drv, cfg, phase, mod, created, slowed, pending, edits>>

-----------------------------------------------------------------------------
(* The drivers, by what is special about them.                             *)
V7nn == {"v785", "v775", "v792"}
Mdpp == {"mdpp16scp", "mdpp32scp", "mdpp16qdc", "mdpp32qdc"}
Drivers ==
    V7nn \cup {"v820", "v830", "v560", "v895", "v767a", "v1n90", "v1725"}
    \cup Mdpp \cup {"madc32", "mqdc32", "mtdc32", "vmmr8"}
    \cup {"febex", "tamex", "ctdc", "kilom", "mppc_rob", "vuprom", "vftx2",
           "etherbone", "cros3"}
    \cup {"sis3801", "sis3820", "scaler", "sis3316"}

Names(d) ==
    CASE d = "v785" -> V7nnSettings [] d = "v775" -> V775Settings
      [] d = "v792" -> V792Settings [] d = "v820" -> V8n0Settings
      [] d = "v830" -> V830Settings [] d = "v560" -> {"use_veto"}
      [] d = "v895" -> V895Settings [] d = "v767a" -> {"width", "offset"}
      [] d = "v1n90" -> V1n90Settings [] d = "v1725" -> V1725Settings
      [] d = "madc32" -> Madc32Settings [] d = "mqdc32" -> Mqdc32Settings
      [] d = "mtdc32" -> Mtdc32Settings [] d = "vmmr8" -> VmmrSettings
      [] d = "mdpp16scp" -> Scp16Settings [] d = "mdpp32scp" -> Scp32Settings
      [] d = "mdpp16qdc" -> Qdc16Settings [] d = "mdpp32qdc" -> Qdc32Settings
      [] d = "febex" -> FebexSettings [] d = "tamex" -> TamexSettings
      [] d = "ctdc" -> CtdcSettings [] d = "kilom" -> KilomSettings
      [] d = "mppc_rob" -> MppcRobSettings [] d = "vuprom" -> VupromSettings
      [] d = "vftx2" -> Vftx2Settings [] d = "etherbone" -> EtherboneSettings
      [] d = "cros3" -> Cros3Settings [] d = "sis3801" -> Sis3801Settings
      [] d = "sis3820" -> Sis3820Settings [] d = "scaler" -> ScalerSettings
      [] d = "sis3316" -> Sis3316Settings

Channels16(d) == d \in {"mdpp16scp", "mdpp16qdc"}
MdppChannels(d) == IF Channels16(d) THEN 16 ELSE 32

(* module_create                                                           *)
CreateRefused(d, m, c) ==
    CASE d = "v775" -> On(c, "auto_pedestals")
      [] d = "vmmr8" -> VmmrRefuses(c)
      [] d = "sis3316" -> ConfigRefused(c)
      [] OTHER -> FALSE
CreateModule(d, m, c) ==
    CASE d \in V7nn -> V7nnCreate(m, c)
      [] d \in {"v820", "v830"} -> V8n0Create(m, c)
      [] d \in {"madc32", "mqdc32"} -> MxdcAdcCreate(m, c)
      [] d \in Mdpp -> MdppCreate(m, c)
      [] d = "vmmr8" -> VmmrCreate(m, c)
      [] d = "etherbone" -> EtherboneCreate(m, c)
      [] d = "cros3" -> Cros3Create(m, c)
      [] d = "scaler" -> ScalerCreate(m, c)
      [] d = "sis3316" -> Sis3316GetConfig(m, c)
      [] OTHER -> m

(* init_slow                                                               *)
SlowRefused(d, m, c) ==
    CASE d \in Mdpp -> MdppSlowRefuses(c, MdppChannels(d))
      [] d = "etherbone" -> EtherboneRefuses(m, c)
      [] d = "sis3316" -> Sis3316SlowRefuses(m, c)
      [] OTHER -> FALSE
InitSlow(d, m, c) ==
    CASE d \in V7nn -> V7nnSlow(m, c)
      [] d \in {"v820", "v830"} -> V8n0Slow(m, c)
      [] d = "v767a" -> V767ASlow(m, c)
      [] d = "v1n90" -> V1n90Slow(m, c)
      [] d = "v1725" -> V1725Slow(m, c)
      [] d \in {"madc32", "mqdc32", "mtdc32", "vmmr8"} -> MxdcSlow(m, c)
      [] d \in Mdpp -> MdppSlow(m, c, MdppChannels(d))
      [] d = "etherbone" -> EtherboneSlow(m, c)
      [] d = "cros3" -> ParaWrite(m, c)
      [] d = "sis3316" -> Sis3316Slow(m, c)
      [] OTHER -> m

(* init_fast                                                               *)
FastRefused(d, m, c) ==
    CASE d \in {"mqdc32", "mtdc32"} -> BanksRefused(c)
      [] d \in Mdpp ->
            \/ MdppRefuses(m, c, MdppChannels(d))
            \/ d \in {"mdpp16scp", "mdpp32scp"} /\ ScpRefuses(c)
      [] d = "febex" -> FebexRefuses(c)
      [] d = "tamex" -> TamexRefuses(c)
      [] d = "mppc_rob" -> MppcRobRefuses(c)
      [] d = "sis3820" -> Sis3820Refuses(c)
      [] d = "scaler" -> ScalerRefuses(c)
      [] d = "sis3316" -> Sis3316FastRefuses(c)
      [] OTHER -> FALSE
InitFast(d, m, c) ==
    CASE d = "v785" -> V7nnFast(m, c) [] d = "v775" -> V775Fast(m, c)
      [] d = "v792" -> V792Fast(m, c) [] d = "v820" -> V820Fast(m, c)
      [] d = "v830" -> V830Fast(m, c) [] d = "v560" -> V560Fast(m, c)
      [] d = "v895" -> V895Fast(m, c) [] d = "v767a" -> V767AFast(m, c)
      [] d = "v1n90" -> V1n90Fast(m, c) [] d = "v1725" -> V1725Fast(m, c)
      [] d = "madc32" -> Madc32Fast(m, c) [] d = "mqdc32" -> Mqdc32Fast(m, c)
      [] d = "mtdc32" -> Mtdc32Fast(m, c) [] d = "vmmr8" -> VmmrFast(m, c)
      [] d = "mdpp16scp" -> Scp16Fast(m, c) [] d = "mdpp32scp" -> Scp32Fast(m, c)
      [] d = "mdpp16qdc" -> Qdc16Fast(m, c) [] d = "mdpp32qdc" -> Qdc32Fast(m, c)
      [] d = "febex" -> FebexFast(m, c) [] d = "tamex" -> TamexFast(m, c)
      [] d = "ctdc" -> CtdcFast(m, c) [] d = "kilom" -> KilomFast(m, c)
      [] d = "mppc_rob" -> MppcRobFast(m, c) [] d = "vuprom" -> VupromFast(m, c)
      [] d = "vftx2" -> Vftx2Fast(m, c) [] d = "sis3801" -> Sis3801Fast(m, c)
      [] d = "sis3820" -> Sis3820Fast(m, c) [] d = "scaler" -> ScalerFast(m, c)
      [] d = "sis3316" -> Sis3316Fast(m, c)
      [] OTHER -> m  \* etherbone, cros3

(* Those with a function post_init; crate_readout_finalize does not ask.   *)
HasPostInit(d) ==
    d \in {"madc32", "mqdc32", "mtdc32", "mdpp16scp", "mdpp32scp", "mdpp32qdc",
           "vmmr8", "sis3316"}

(* crate_init of one module                                                *)
Initialised(d, m, c) ==
    LET n == InitFast(d, InitSlow(d, m, c), c)
    IN IF d = "v1n90" THEN MicroInitSlow(n, c) ELSE n
InitRefused(d, m, c) ==
    SlowRefused(d, m, c) \/ FastRefused(d, InitSlow(d, m, c), c)

-----------------------------------------------------------------------------
(* Settings are 0 or 1, unless there is more to choose from.               *)
Most(d, s) ==
    CASE d \in Mdpp /\ s = "trigger_input" -> 3
      [] d = "scaler" /\ s = "data_format" -> Other
      [] s \in {"clk_freq", "ext_clk_freq", "baseline_average"}
           /\ d \in {"sis3820", "sis3316"} -> Other
      [] d \in Mdpp /\ s \in {"nim_2", "ecl_2", "resolution_adc"} -> 2
      [] d = "vmmr8" /\ s \in {"nim_0", "nim_2", "nim_3", "ecl_0", "ecl_1", "ecl_3"} -> 2
      [] s \in {"exp_trig", "banks_operation"} -> 2
      [] d \in {"febex", "tamex"}
           /\ s \in {"gate_time", "energy_filter", "card_energy_filter",
                     "clock_input", "test_pulse_freq"} -> 2
      [] d \in {"mppc_rob", "etherbone"} /\ s \in {"version", "mode"} -> 2
      [] d = "sis3316" /\ s \in {"average_mode", "range", "sample_length"} -> 2
      [] OTHER -> 1

(* What a driver finds out about its module, or the crate tells it.        *)
Surroundings(d) ==
    CASE d = "madc32" -> [fw_new : {0, 1}]
      [] d \in {"v1n90", "mdpp16scp", "mdpp32scp"} -> [free_running : {0, 1}]
      [] d = "tamex" -> [model : {"tamex2", "tamex2_padi", "tamex_padi1", "tamex3",
                                  "tamex4_padi"}]
      [] d = "etherbone" -> [dactl : {0, Switched, 2}]
      [] d = "sis3316" -> [bits : {14, 16}, receiver : {0, 1}]
      [] OTHER -> {<< >>}

(* The settings to start with: all 0 or all 1, with exceptions for drivers *)
(* that would refuse these.                                                *)
Exceptions(d) ==
    CASE d \in Mdpp -> {[trigger_channel |-> 1],
                        [trigger_input |-> 1, nim_3 |-> 0, ecl_0 |-> 0,
                         monitor_on |-> 0, nim_2 |-> 2, ecl_1 |-> 0, nim_4 |-> 0,
                         gate_width |-> 0, trigger_channel |-> 0]}
      [] d = "v775" -> {[auto_pedestals |-> 0]}
      [] d = "mqdc32" -> {<< >>, [exp_trig |-> ExpNim]}
      [] d = "tamex" -> {<< >>, [test_pulse_channel |-> 0, card_gate_time |-> 0],
                         [test_pulse_channel |-> 0, clock_input |-> 2,
                          gate_time |-> 0]}
      [] d = "sis3316" -> {<< >>, [use_dithering |-> 0, use_rataclock |-> 0,
                                   ext_clk_freq |-> 0],
                           [use_external_gate |-> 0],
                           [sample_length |-> Long, write_traces_maw_energy |-> 0]}
      [] OTHER -> {<< >>}
Starts(d) ==
    {[s \in Names(d) |-> IF s \in DOMAIN e THEN e[s] ELSE v] @@ r :
       v \in {0, 1}, e \in Exceptions(d), r \in Surroundings(d)}

SettingsInit ==
    /\ drv \in Drivers
    /\ cfg \in Starts(drv)
    /\ phase = "off" /\ mod = Unplugged
    /\ created = cfg /\ slowed = cfg
    /\ pending = FALSE /\ edits = 0

(* config_write by ctrl, or the file of the configuration when the program *)
(* does not run                                                            *)
Edit ==
    /\ phase \in {"off", "on"} /\ edits < MaxEdits
    /\ \E s \in Names(drv) : \E v \in 0..Most(drv, s) :
         v # cfg[s] /\ cfg' = [cfg EXCEPT ![s] = v]
    /\ pending' = (phase = "on")
    /\ edits' = edits + 1
    /\ UNCHANGED <<drv, phase, mod, created, slowed>>

Create ==
    /\ phase = "off"
    /\ IF CreateRefused(drv, mod, cfg) THEN phase' = "dead" /\ mod' = mod
       ELSE phase' = "created" /\ mod' = CreateModule(drv, mod, cfg)
    /\ created' = cfg /\ slowed' = cfg
    /\ UNCHANGED <<drv, cfg, pending, edits>>

(* crate_init, first or after STATE_REINIT                                 *)
BringUp ==
    /\ phase \in {"created", "on"}
    /\ IF InitRefused(drv, mod, cfg) THEN phase' = "dead" /\ mod' = mod
       ELSE phase' = "on" /\ mod' = Initialised(drv, mod, cfg)
    /\ slowed' = cfg
    /\ UNCHANGED <<drv, cfg, created, pending, edits>>

(* crate_readout_finalize with module_configed_vec not empty               *)
Online ==
    /\ phase = "on" /\ pending
    /\ IF FastRefused(drv, mod, cfg) THEN phase' = "dead" /\ mod' = mod
       ELSE /\ phase' = IF HasPostInit(drv) THEN "on" ELSE "dead"
            /\ mod' = InitFast(drv, mod, cfg)
    /\ pending' = FALSE
    /\ UNCHANGED <<drv, cfg, created, slowed, edits>>

(* The program is ended, or has ended itself; the hardware stays on.       *)
End ==
    /\ phase \in {"on", "dead"}
    /\ phase' = "off" /\ mod' = [mod EXCEPT !.my = << >>]
    /\ pending' = FALSE
    /\ UNCHANGED <<drv, cfg, created, slowed, edits>>

SettingsNext == Edit \/ Create \/ BringUp \/ Online \/ End

-----------------------------------------------------------------------------
(* Settings that are read when the module is created, or when the crate is *)
(* initialised: others are for a running crate too.                        *)
AtCreate(d) ==
    CASE d \in V7nn \cup Mdpp \cup {"madc32", "mqdc32"} -> {"auto_pedestals"}
      [] d \in {"v820", "v830"} -> {"paux"}
      [] d = "vmmr8" -> VmmrSettings \ MxdcSettings
      [] d = "etherbone" -> {"mode"}
      [] d = "cros3" -> Cros3Settings
      [] d = "scaler" -> {"blt_mode", "latching"}
      [] OTHER -> {}
AtStart(d) ==
    CASE d \in V7nn -> {"blt_mode", "berr"}
      [] d = "v1725" -> {"blt_mode", "berr", "blt_ext"}
      [] d \in Mdpp -> {"blt_mode", "trigger_output", "trigger_input",
                        "reset_time", "trigger_channel"}
      [] d \in {"v820", "v830", "v1n90", "madc32", "mqdc32", "mtdc32", "vmmr8"} ->
            {"blt_mode"}
      [] OTHER -> {}
InForce ==
    [s \in DOMAIN cfg |-> IF s \in AtCreate(drv) THEN created[s]
                          ELSE IF s \in AtStart(drv) THEN slowed[s] ELSE cfg[s]]

(* Registers that one choice writes and another leaves alone, in a module  *)
(* that is not reset in between.                                           *)
LeftBehind(d) ==
    CASE d = "madc32" -> {"ecl_busy"}
      [] d = "mqdc32" -> {"ecl_fc_reset", "nim_fc_reset", "exp_trig_delay0",
                          "exp_trig_delay1"}
      [] d \in Mdpp -> {"ts_sources", "marking_type"}
      [] d = "febex" -> {"energy_sums"}
      [] d \in {"ctdc", "kilom"} -> {"channel_disable4", "trigger_disable4",
                                     "polarity"}
      [] d = "mppc_rob" -> {"channel_disable4", "trigger_disable4"}
      [] d = "sis3316" -> {"fpbus_control", "acc_gates_1_6", "acc_gates_7_8",
                           "nim_in_control", "ext_raw_data_buffer",
                           "bank_swap_with_nim_input", "clock_multiplier",
                           "oscillator", "dma_map"}
      [] OTHER -> {}

AllOf(m) == m.my @@ m.reg
FreshStart(d, c) == Initialised(d, CreateModule(d, Unplugged, c), c)

(* A crate that runs has in each module what a start with the settings in  *)
(* force would have put there, whatever was there before.                  *)
AsStarted ==
    phase = "on" /\ ~pending =>
        LET fresh == AllOf(FreshStart(drv, InForce)) now == AllOf(mod)
        IN \A x \in (DOMAIN fresh \cup DOMAIN now) \ LeftBehind(drv) :
             x \in DOMAIN fresh /\ x \in DOMAIN now /\ fresh[x] = now[x]

(* What a start ends with.                                                 *)
Outcome(d, c) ==
    IF \/ CreateRefused(d, Unplugged, c)
       \/ InitRefused(d, CreateModule(d, Unplugged, c), c)
    THEN Unplugged
    ELSE FreshStart(d, c)

(* Settings that have no effect.                                           *)
Unheard(d) ==
    CASE d \in Mdpp \cup {"madc32", "mqdc32", "mtdc32"} -> {"init_sleep"}
      [] d = "vmmr8" -> {"init_sleep", "trigger_output", "trigger_output_src"}
      [] d = "v1725" -> {"clock_input", "trigger_flag_downscale"}
      [] d = "tamex" -> {"test_pulse_delay"}
      [] d = "vuprom" -> {"gate_time"}
      [] d = "sis3316" -> {"use_peak_charge", "write_histograms", "baseline_delay"}
      [] OTHER -> {}

(* A setting that the driver asks for makes a difference to something: the *)
(* module, the driver, or whether the program starts.                      *)
ChoiceIsHeard ==
    phase = "off" /\ edits = 0 =>
        \A s \in Names(drv) \ Unheard(drv) :
            \E c \in Starts(drv) : \E v \in 0..Most(drv, s) :
                Outcome(drv, c) # Outcome(drv, [c EXCEPT ![s] = v])
=============================================================================
