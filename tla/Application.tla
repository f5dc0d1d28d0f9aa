---------------------------- MODULE Application -----------------------------
(***************************************************************************)
(* The program as main.cpp puts it together, start to end: the settings    *)
(* with the plugins that follow them, and the update checker, whose check  *)
(* of the start-up one of the settings asks for.                           *)
(***************************************************************************)
EXTENDS PluginSettings, UpdateChecker

VARIABLE startupTimer  \* the single shot of 1500 ms is pending

applicationVars == <<pluginVars, updateVars, startupTimer>>

Start ==
  /\ StartProgram
  /\ startupTimer' = settings'.checkOnStartup
  /\ UNCHANGED updateVars

End ==
  /\ \/ Quit
     \/ \E id \in ToSet(listed), enabled \in BOOLEAN, n \in 1..Len(listed) :
          CrashInSetExclusive(id, enabled, n)
  /\ UpdateReset /\ startupTimer' = FALSE

StartupCheck ==
  /\ startupTimer /\ startupTimer' = FALSE
  /\ CheckForUpdates(TRUE)
  /\ UNCHANGED pluginVars

(* The menu, which is enabled during a check, or the button, which is not. *)
UserCheck ==
  /\ running
  /\ CheckForUpdates(FALSE)
  /\ UNCHANGED <<pluginVars, startupTimer>>

ApplicationInit == PluginInit /\ UpdateInit /\ startupTimer = FALSE

ApplicationNext ==
  \/ Start
  \/ End
  \/ (ChangeSettings \/ ServeReload) /\ UNCHANGED <<updateVars, startupTimer>>
  \/ StartupCheck
  \/ UserCheck
  \/ Replies /\ UNCHANGED <<pluginVars, startupTimer>>

ApplicationSpec == ApplicationInit /\ [][ApplicationNext]_applicationVars

=============================================================================
