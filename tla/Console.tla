------------------------------- MODULE Console -------------------------------
(***************************************************************************)
(* What an operator changes from the console (console/api.py): the kill    *)
(* switch, the risk limits, the runtime configuration and the settings of  *)
(* console/settings.py.  Every start builds a new pipeline with a kill     *)
(* switch and limits of its own; requests act on the newest pipeline,      *)
(* while the loop of an older one may still be in its last bar.  Requests  *)
(* run in threads of a pool and only the supervisor's methods lock.        *)
(***************************************************************************)
EXTENDS Naturals, Sequences, SequencesExt

CONSTANTS
  Callers,      \* threads that serve requests
  Fields,       \* fields of the configuration and of the settings
  Values,       \* their values
  Bounded,      \* the values within the bounds of a risk limit
  LiveAllowed,  \* PYROBOT_ALLOW_LIVE_TRADING is "true"
  MaxStarts, MaxEdits   \* bounds of the model

Default == "default"
Given == [Fields -> Values \cup {Default}]
Nothing == [f \in Fields |-> Default]

VARIABLES
  pipelines,    \* built so far; the last is supervisor.pipeline
  running,      \* the supervisor's state is RUNNING
  config,       \* supervisor.config
  settings,     \* SettingsManager._settings
  file,         \* console_settings.json
  caller,       \* per caller: the request it is in the middle of
  edits,        \* requests that change configuration or settings
  halted,       \* history: pipelines an operator was told are stopped, no reset of them asked since
  crossed,      \* history: callers whose kill switch request a start has crossed
  limitWanted,  \* history: risk limits answered "ok" since the last start
  wanted,       \* history: configuration and settings, all edits applied in order
  overlapped    \* history: "config" and "settings" once two such edits overlapped

vars == <<pipelines, running, config, settings, file, caller, edits, halted, crossed, limitWanted, wanted, overlapped>>
kept == <<config, settings, file, caller, edits, wanted, overlapped>>
asked == <<halted, crossed, limitWanted>>

-----------------------------------------------------------------------------
\* held: the pipeline a kill switch request has read.
Idle == [step |-> "idle", dict |-> Nothing, held |-> 0]

Init ==
  /\ pipelines = <<>> /\ running = FALSE
  /\ config = Nothing /\ settings = Nothing /\ file = Nothing
  /\ caller = [c \in Callers |-> Idle] /\ edits = 0
  /\ halted = {} /\ crossed = {} /\ limitWanted = Nothing
  /\ wanted = [config |-> Nothing, settings |-> Nothing]
  /\ overlapped = {}

Newest == Len(pipelines)
Pipeline(loop) == [killed |-> FALSE, limits |-> Nothing, loop |-> loop]

-----------------------------------------------------------------------------
(* control/start and control/stop *)

\* Steps of a kill switch request that has read its pipeline.
Switching == {"activate", "reset"}

\* The pipeline is replaced and its loop launched; a start that fails after the
\* pipeline was built leaves one without a loop.
Builds(loop) ==
  /\ Newest < MaxStarts
  /\ pipelines' = Append(pipelines, Pipeline(loop))
  /\ running' = loop
  /\ crossed' = crossed \cup {c \in Callers : caller[c].step \in Switching}
  /\ limitWanted' = Nothing /\ UNCHANGED halted

Start ==
  /\ ~running
  /\ \E loop \in BOOLEAN : Builds(loop)
  /\ UNCHANGED kept

\* join has a time-out: the loop may go on in its bar.
Stop ==
  /\ running
  /\ running' = FALSE
  /\ UNCHANGED <<pipelines, kept, asked>>

LoopEnds(i) ==
  /\ i \in DOMAIN pipelines /\ pipelines[i].loop
  /\ pipelines' = [pipelines EXCEPT ![i].loop = FALSE]
  /\ running' = (running /\ i # Newest)
  /\ UNCHANGED <<kept, asked>>

\* A loop trades within the limits of its own pipeline and by its kill switch.
MayTrade(i) == i \in DOMAIN pipelines /\ pipelines[i].loop /\ ~pipelines[i].killed

-----------------------------------------------------------------------------
(* kill-switch and risk-limits *)

\* The pipeline a request acts on.  Mutant: the first one built.
Acted_OnFirst == 1
Acted == Newest

\* The supervisor's lock is held for the read of its pipeline only; without a
\* pipeline the request is refused.  Nothing is promised once a reset is asked for.
ReadPipeline(c, request) ==
  /\ caller[c] = Idle /\ pipelines # <<>>
  /\ caller' = [caller EXCEPT ![c] = [step |-> request, dict |-> Nothing, held |-> Acted]]
  /\ halted' = IF request = "reset" THEN halted \ {Newest} ELSE halted
  /\ UNCHANGED <<pipelines, running, config, settings, file, edits, crossed, limitWanted, wanted, overlapped>>

\* What activate and reset leave of the switch.
Killed(request) == request = "activate"

\* The pipeline that was read is switched, and the request answered "ok".
SetKillSwitch(c) ==
  /\ caller[c].step \in Switching
  /\ pipelines' = [pipelines EXCEPT ![caller[c].held].killed = Killed(caller[c].step)]
  /\ caller' = [caller EXCEPT ![c] = Idle]
  /\ halted' = IF caller[c].step = "activate" /\ c \notin crossed /\ \A d \in Callers : caller[d].step # "reset"
               THEN halted \cup {Newest} ELSE halted
  /\ crossed' = crossed \ {c}
  /\ UNCHANGED <<running, config, settings, file, edits, limitWanted, wanted, overlapped>>

\* validate: every limit lies within its bounds.
Valid(limits) == \A f \in Fields : limits[f] \in Bounded \cup {Default}

\* A partial update over the limits in force, refused whole when one of them is
\* out of bounds.  Without a pipeline it is answered "ok" and forgotten.
PatchRiskLimits(f, v) ==
  /\ Valid([(IF pipelines = <<>> THEN Nothing ELSE pipelines[Acted].limits) EXCEPT ![f] = v])
  /\ pipelines' = IF pipelines = <<>> THEN pipelines ELSE [pipelines EXCEPT ![Acted].limits[f] = v]
  /\ limitWanted' = IF pipelines = <<>> THEN limitWanted ELSE [limitWanted EXCEPT ![f] = v]
  /\ UNCHANGED <<running, kept, halted, crossed>>

-----------------------------------------------------------------------------
(* control/config and live-unlock: the configuration is read outside the   *)
(* supervisor's lock, merged, and applied with a stop and a start.         *)

Does(c, step, dict) == caller' = [caller EXCEPT ![c] = [step |-> step, dict |-> dict, held |-> 0]]

Overlaps(kind, steps) ==
  overlapped' = IF \E d \in Callers : caller[d].step \in steps THEN overlapped \cup {kind} ELSE overlapped

\* Mutant of Merged: the update replaces what was there.
Merged_Replaces(old, f, v) == [Nothing EXCEPT ![f] = v]
Merged(old, f, v) == [old EXCEPT ![f] = v]

ReadConfig(c, f, v) ==
  /\ caller[c] = Idle /\ edits < MaxEdits
  /\ edits' = edits + 1
  /\ Does(c, "config", Merged(config, f, v))
  /\ wanted' = [wanted EXCEPT !.config[f] = v]
  /\ Overlaps("config", {"config"})
  /\ UNCHANGED <<pipelines, running, config, settings, file, asked>>

\* apply_config: stop, then set the configuration and start, refused when another
\* request has started meanwhile.  The configuration stays either way.
ApplyConfig(c) ==
  /\ caller[c].step = "config"
  /\ config' = caller[c].dict
  /\ Does(c, "idle", Nothing)
  /\ \/ \E loop \in BOOLEAN : Builds(loop)
     \/ UNCHANGED <<pipelines, running, asked>>
     \/ running' = FALSE /\ UNCHANGED <<pipelines, asked>>
  /\ UNCHANGED <<settings, file, edits, wanted, overlapped>>

\* validate_live_unlock: the environment, the phrase and the second confirmation.
Unlocks(phrase, second) == LiveAllowed /\ phrase /\ second

\* allow_live_trading is set on the configuration in place.
LiveUnlock(f, v, phrase, second) ==
  /\ Unlocks(phrase, second)
  /\ edits < MaxEdits
  /\ edits' = edits + 1
  /\ config' = [config EXCEPT ![f] = v]
  /\ wanted' = [wanted EXCEPT !.config[f] = v]
  /\ Overlaps("config", {"config"})
  /\ UNCHANGED <<pipelines, running, settings, file, caller, asked>>

-----------------------------------------------------------------------------
(* SettingsManager *)

\* update: the current settings are read and merged ...
ReadSettings(c, f, v) ==
  /\ caller[c] = Idle /\ edits < MaxEdits
  /\ edits' = edits + 1
  /\ Does(c, "merged", Merged(settings, f, v))
  /\ wanted' = [wanted EXCEPT !.settings[f] = v]
  /\ Overlaps("settings", {"merged", "dumped"})
  /\ UNCHANGED <<pipelines, running, config, settings, file, asked>>

\* reset starts from the defaults.
ResetSettings(c) ==
  /\ caller[c] = Idle /\ edits < MaxEdits
  /\ edits' = edits + 1
  /\ Does(c, "merged", Nothing)
  /\ wanted' = [wanted EXCEPT !.settings = Nothing]
  /\ Overlaps("settings", {"merged", "dumped"})
  /\ UNCHANGED <<pipelines, running, config, settings, file, asked>>

\* ... put in place and dumped ...
PutSettings(c) ==
  /\ caller[c].step = "merged"
  /\ settings' = caller[c].dict
  /\ Does(c, "dumped", caller[c].dict)
  /\ UNCHANGED <<pipelines, running, config, file, edits, wanted, overlapped, asked>>

\* ... and written.
WriteSettings(c) ==
  /\ caller[c].step = "dumped"
  /\ file' = caller[c].dict
  /\ Does(c, "idle", Nothing)
  /\ UNCHANGED <<pipelines, running, config, settings, edits, wanted, overlapped, asked>>

-----------------------------------------------------------------------------
(* The console process ends and starts again: the configuration comes from *)
(* the environment, the settings from the file, which is read as the       *)
(* defaults when the process ended while writing it.                       *)
Restart ==
  /\ pipelines' = <<>> /\ running' = FALSE
  /\ halted' = {} /\ crossed' = {} /\ limitWanted' = Nothing
  /\ config' = Nothing
  /\ \E found \in {file} \cup {Nothing : c \in {d \in Callers : caller[d].step = "dumped"}} :
       settings' = found /\ file' = found
  /\ wanted' = [config |-> Nothing, settings |-> settings']
  /\ caller' = [c \in Callers |-> Idle]
  /\ overlapped' = {}
  /\ UNCHANGED edits

Next ==
  \/ Start \/ Stop \/ Restart
  \/ \E i \in 1..MaxStarts : LoopEnds(i)
  \/ \E f \in Fields, v \in Values : 
       PatchRiskLimits(f, v) \/ \E phrase, second \in BOOLEAN : LiveUnlock(f, v, phrase, second)
  \/ \E c \in Callers :
       \/ SetKillSwitch(c) \/ \E request \in Switching : ReadPipeline(c, request)
       \/ ApplyConfig(c) \/ ResetSettings(c) \/ PutSettings(c) \/ WriteSettings(c)
       \/ \E f \in Fields, v \in Values : ReadConfig(c, f, v) \/ ReadSettings(c, f, v)

Spec == Init /\ [][Next]_vars

-----------------------------------------------------------------------------
(* Properties *)

\* An activation answered "ok" that no start crossed, with no reset in the air,
\* stops the loop of the pipeline that is the newest: it does not trade again,
\* whatever is stopped and started, until a reset is asked for while it is the
\* newest.  A loop that trades does so within the limits last answered "ok".
OperatorHeeded ==
  \A i \in DOMAIN pipelines :
    /\ i \in halted => ~MayTrade(i)
    /\ i = Newest => pipelines[i].limits = limitWanted

\* "merges, does not replace": every edit of configuration and settings is in
\* force once answered, and the settings file agrees, as long as no two edits
\* overlapped in time.
EditsKept ==
  /\ "config" \notin overlapped /\ (\A c \in Callers : caller[c].step # "config") => config = wanted.config
  /\ "settings" \notin overlapped /\ (\A c \in Callers : caller[c].step \notin {"merged", "dumped"}) =>
       settings = wanted.settings /\ file = settings

=============================================================================
