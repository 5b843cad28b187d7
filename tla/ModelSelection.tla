---------------------------- MODULE ModelSelection ----------------------------
(***************************************************************************)
(* The choice of the model in the ESP32-P4 example, over its restarts: the *)
(* index kept in NVS, the start that reads it and brings the module up     *)
(* with that model and its network info, and the BOOT button that stores   *)
(* the next index and restarts.  The board may lose power between any two  *)
(* steps, and a start that fails is aborted and begins again.              *)
(***************************************************************************)
EXTENDS Integers

CONSTANTS
  Count,       \* embedded models
  Default,     \* imx500_get_default_embedded_model_index()
  Flash,       \* AI_CAMERA_MULTITASK_BOOT_MODE_FLASH, else DIRECT
  Debounce,    \* kBootButtonDebounceMs in polls of the button
  MaxPresses,  \* bound on the times the button goes down
  MaxFaults,   \* bound on power cuts and failed operations
  MaxUnread    \* bound on the starts that cannot read NVS

ModelAssumption == Count \in Nat \ {0} /\ Default \in 0 .. Count - 1 /\ Debounce \in Nat \ {0}

Models == 0 .. Count - 1
None   == -1

VARIABLES
  stored,                      \* the index in NVS, None without one
  pc, active,                  \* the program: its step, and g_active_model_index
  model, network_info,         \* the two slots of the module's flash, by the model they are of
  opened,                      \* what the module was opened with
  button, was_pressed, held,   \* the button, as last seen, and the polls it has been seen down
  presses, switches, faults, unread

nvs     == <<stored>>
module  == <<model, network_info, opened>>
boot    == <<button, was_pressed, held>>
bounds  == <<presses, switches, faults, unread>>
vars    == <<nvs, pc, active, module, boot, bounds>>

\* First start: nothing is stored, or another build has stored an index.
Init ==
  /\ stored \in {None} \union 0 .. Count
  /\ pc = "select" /\ active = None
  /\ model = None /\ network_info = None /\ opened = <<None, None>>
  /\ button = FALSE /\ was_pressed = FALSE /\ held = 0
  /\ presses = 0 /\ switches = 0 /\ faults = 0 /\ unread = 0

Fault == faults < MaxFaults /\ faults' = faults + 1 /\ UNCHANGED <<presses, switches, unread>>

----------------------------------------------------------------------------
(* The start                                                                *)

\* select_active_model(): an index that is no model's gives way to the default.
Usable(index) == IF index \in Models THEN index ELSE Default

SelectActiveModel ==
  /\ pc = "select"
  /\ \/ active' = Usable(stored) /\ UNCHANGED unread
     \/ unread < MaxUnread /\ unread' = unread + 1 /\ active' = Default
  /\ pc' = IF Flash THEN "write_model" ELSE "open"
  /\ was_pressed' = FALSE /\ held' = 0
  /\ UNCHANGED <<nvs, module, button, presses, switches, faults>>

\* Network info that is in the flash already is kept.
WriteSlotOnce ==
  \/ /\ pc = "write_model" /\ pc' = "writing_model"
     /\ model' = None /\ UNCHANGED network_info
  \/ /\ pc = "writing_model" /\ pc' = "write_info"
     /\ model' = active /\ UNCHANGED network_info
  \/ /\ pc = "write_info" /\ pc' = "open"
     /\ network_info' = IF network_info = None THEN active ELSE network_info
     /\ UNCHANGED model

\* program_flash_assets(): a slot is empty while it is written, and after a failure.
WriteSlot ==
  \/ /\ pc = "write_model" /\ pc' = "writing_model"
     /\ model' = None /\ UNCHANGED network_info
  \/ /\ pc = "writing_model" /\ pc' = "write_info"
     /\ model' = active /\ UNCHANGED network_info
  \/ /\ pc = "write_info" /\ pc' = "writing_info"
     /\ network_info' = None /\ UNCHANGED model
  \/ /\ pc = "writing_info" /\ pc' = "open"
     /\ network_info' = active /\ UNCHANGED model

ProgramFlashAssets ==
  WriteSlot /\ UNCHANGED <<nvs, active, opened, boot, bounds>>

\* open_imx500_stream() and the start of the workers.
OpenStream ==
  /\ pc = "open" /\ pc' = "run"
  /\ opened' = IF Flash THEN <<model, network_info>> ELSE <<active, active>>
  /\ UNCHANGED <<nvs, active, model, network_info, boot, bounds>>

\* A step of the start fails, app_main() aborts, and the program begins again.
StartFails ==
  /\ pc \in {"select", "write_model", "writing_model", "write_info", "writing_info", "open"}
  /\ pc' = "select" /\ Fault
  /\ UNCHANGED <<nvs, active, module, boot>>

----------------------------------------------------------------------------
(* The button                                                               *)
PressOrRelease ==
  /\ IF button THEN UNCHANGED presses ELSE presses < MaxPresses /\ presses' = presses + 1
  /\ button' = ~button
  /\ UNCHANGED <<nvs, pc, active, module, was_pressed, held, switches, faults, unread>>

LongEnough == was_pressed /\ ~button /\ held + 1 >= Debounce

\* boot_button_task()
PollButton ==
  /\ pc = "run"
  /\ pc' = IF LongEnough THEN "save" ELSE "run"
  /\ held' = IF ~(button /\ was_pressed) THEN 0
           ELSE IF held < Debounce THEN held + 1 ELSE held
  /\ was_pressed' = button
  /\ UNCHANGED <<nvs, active, module, button, bounds>>

NextIndex == (active + 1) % Count

\* save_selected_model_index(): the value is written, and then committed.  Between the
\* two, and when the commit fails, either value may be there.
SetIndex ==
  /\ pc = "save" /\ pc' = "commit"
  /\ stored' \in {stored, NextIndex}
  /\ UNCHANGED <<active, module, boot, bounds>>

Commit ==
  /\ pc = "commit" /\ pc' = "restart"
  /\ stored' = NextIndex /\ switches' = switches + 1
  /\ UNCHANGED <<active, module, boot, presses, faults, unread>>

\* Either operation fails: "MODEL SWITCH FAILED", and the button is polled again.
SaveFails ==
  /\ pc \in {"save", "commit"} /\ pc' = "run" /\ Fault
  /\ UNCHANGED <<nvs, active, module, boot>>

\* esp_restart()
Restart ==
  /\ pc = "restart" /\ pc' = "select"
  /\ UNCHANGED <<nvs, active, module, boot, bounds>>

\* The board loses power, and comes back.
PowerCut ==
  /\ pc # "select" /\ pc' = "select" /\ Fault
  /\ UNCHANGED <<nvs, active, module, boot>>

Program ==
  SelectActiveModel \/ ProgramFlashAssets \/ OpenStream \/ PollButton \/ SetIndex \/ Commit \/ Restart

Next == Program \/ StartFails \/ SaveFails \/ PowerCut \/ PressOrRelease

Spec == Init /\ [][Next]_vars /\ WF_vars(Program)

----------------------------------------------------------------------------

\* The module runs the model the program takes it to run, with the network info of that
\* model, whatever was in its flash before and wherever power was lost.
MatchingPair == pc \in {"run", "save", "commit", "restart"} => opened = <<active, active>>

\* One press of the button, however long, is at most one switch.
OnePressOneSwitch == switches <= presses

=============================================================================
