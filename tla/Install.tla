------------------------------ MODULE Install ------------------------------
(***************************************************************************)
(* install, refresh and uninstall (src/src/cli), which put Carryover's     *)
(* hooks into the settings files of the coding tools and take them out     *)
(* again, while the user and the tools edit the same files, a command may  *)
(* fail or be killed at any step, and the service manager may or may not   *)
(* answer.                                                                 *)
(*                                                                         *)
(* A settings file is what the commands tell apart in it: which hook of    *)
(* Carryover's it holds, whether it holds anything else beside it or in    *)
(* its place, and whether it parses.  The events of one tool are written   *)
(* together and stand here for one hook.  One command runs at a time.      *)
(***************************************************************************)
EXTENDS Naturals, FiniteSets

CONSTANTS
  Tool,     \* the tools of this instance, of {"claude", "cursor", "codex"}
  Shared,   \* those whose settings file is edited while Carryover is in use
  MaxRuns,  \* bound: commands run
  Missing,  \* there is no such file
  Fault     \* of {"io", "torn", "systemctl", "edit", "break"}

ASSUME InstallAssumption ==
  /\ Tool \subseteq {"claude", "cursor", "codex"}
  /\ Shared \subseteq Tool
  /\ MaxRuns \in Nat
  /\ Missing \notin [ours : {"none", "bare", "stale", "current"},
                    user : BOOLEAN, rival : BOOLEAN, broken : BOOLEAN]
  /\ Fault \subseteq {"io", "torn", "systemctl", "edit", "break"}

VARIABLES
  settings,  \* the settings file of each tool
  script,    \* the tools whose wrapper scripts are in ~/.carryover/hooks
  blocks,    \* the documents in the home directory with a pointer block
  config,    \* the tools ~/.carryover/config.json names; none: no such file
  unit,      \* is the unit file there?
  enabled,   \* is the service enabled?
  up,        \* does the daemon run?
  serves,    \* the tools it serves: those config.json named when it started
  cmd,       \* the command that runs, or "none"
  pc,        \* its next step
  chosen,    \* the tools it is about
  todo,      \* those it has still to deal with
  held,      \* the settings file it has read
  result,    \* "hooked" when an install or a refresh has ended well, until the next command
  runs,      \* commands run so far
  strayed    \* what a command left behind without config naming it any more

machine == <<unit, enabled, up, serves>>
work    == <<runs, cmd, chosen, todo, held, result>>
job     == <<pc, work>>
vars    == <<settings, script, blocks, config, machine, job, strayed>>

(* rival: where the hook belongs there is something that does not go with it,
   Cursor's one entry for the event or a notify of Codex's that is no array. *)
Settings == [ours : {"none", "bare", "stale", "current"},
             user : BOOLEAN, rival : BOOLEAN, broken : BOOLEAN]
Wrapped  == {"cursor", "codex"} \cap Tool
Doc      == {"codex", "agents", "claude"}
Removing == cmd = "uninstall"

(* The tools are dealt with in the order of ALL_TOOLS. *)
Rank    == [claude |-> 1, cursor |-> 2, codex |-> 3]
Turn(t) == t \in todo /\ \A u \in todo : Rank[t] <= Rank[u]

Hooked(t) == settings[t] # Missing /\ settings[t].ours # "none"
Names(t)  == settings[t] # Missing /\ settings[t].ours = "current"
Own(t)    == settings[t] # Missing /\ settings[t].user
Rival(t)  == settings[t] # Missing /\ settings[t].rival
-----------------------------------------------------------------------------
(* Mutants of Hook: what else is in the file is dropped; an entry of an older
   version is taken for the current one. *)
Alone == [ours |-> "current", user |-> FALSE, rival |-> FALSE, broken |-> FALSE]
HookAlone(t, s) == Alone
HookUnlessOld(t, s) ==
  IF s = Missing \/ s.broken THEN Alone
  ELSE [s EXCEPT !.ours = IF s.ours = "none" THEN "current" ELSE s.ours, !.rival = FALSE]

(* The file with the hook in it, which takes the place of a rival.  A file of
   Claude Code or Cursor that does not parse counts as empty; Codex's is refused,
   see Refused. *)
Hook(t, s) ==
  IF s = Missing \/ s.broken THEN Alone
  ELSE [s EXCEPT !.ours = "current", !.rival = FALSE]

(* The file without the hook, if the hook is found in it: not in a file that does
   not parse, and for Claude Code not in the bare form of older versions. *)
Overlooked(t, s) == s # Missing /\ (s.broken \/ (t = "claude" /\ s.ours = "bare"))
Unhook(t, s) ==
  IF s = Missing \/ Overlooked(t, s) THEN s ELSE [s EXCEPT !.ours = "none"]

Refused(t, s) == t = "codex" /\ s # Missing /\ s.broken
-----------------------------------------------------------------------------
TypeOK ==
  /\ settings \in [Tool -> Settings \cup {Missing}]
  /\ script \subseteq Wrapped
  /\ blocks \subseteq Doc
  /\ config \subseteq Tool
  /\ unit \in BOOLEAN /\ enabled \in BOOLEAN
  /\ up \in BOOLEAN /\ serves \subseteq Tool
  /\ runs \in Nat
  /\ cmd \in {"none", "install", "refresh", "uninstall"}
  /\ pc \in {"none", "script", "read", "write", "blocks", "save", "unit", "service",
             "config", "purge"}
  /\ chosen \subseteq Tool
  /\ todo \subseteq chosen
  /\ held \in Settings \cup {Missing}
  /\ result \in {"none", "hooked"}
  /\ strayed \subseteq Tool \cup {"service"}

(* Nothing is installed, or a version that wrote hooks of an older form is. *)
Older(t) == CASE t = "claude" -> {"bare", "stale"} [] t = "cursor" -> {"bare"} [] OTHER -> {"none"}
Init ==
  /\ config \in {{}, Tool \ {"codex"}}
  /\ settings \in [Tool -> {s \in Settings : ~s.broken} \cup {Missing}]
  /\ \A t \in Tool \ Shared : settings[t] # Missing => settings[t].user
  /\ \A t \in Tool : Rival(t) => t \in Wrapped /\ ~Hooked(t)
  /\ \A t \in Tool : IF t \in config THEN settings[t] # Missing /\ settings[t].ours \in Older(t)
                                      ELSE ~Hooked(t)
  /\ script = {} /\ blocks = {}
  /\ unit = FALSE /\ enabled = FALSE /\ up = FALSE /\ serves = {}
  /\ cmd = "none" /\ pc = "none" /\ chosen = {} /\ todo = {} /\ held = Missing
  /\ result = "none" /\ runs = 0 /\ strayed = {}
-----------------------------------------------------------------------------
(* Mutant of Begin: uninstall takes the config away when it has read it. *)
BeginForgets(c, picked) ==
  /\ cmd = "none" /\ runs < MaxRuns
  /\ IF c = "install" THEN picked # {} ELSE picked = config
  /\ c = "refresh" => picked # {}
  /\ runs' = runs + 1
  /\ cmd' = c /\ chosen' = picked /\ todo' = picked /\ held' = Missing
  /\ pc' = IF picked = {} THEN "service" ELSE "script"
  /\ result' = "none"
  /\ config' = IF c = "uninstall" THEN {} ELSE config
  /\ UNCHANGED <<settings, script, blocks, machine, strayed>>

(* A command starts.  install is given the tools the user picks, the others take
   those config.json names; install without a pick and refresh without a config
   do nothing. *)
Begin(c, picked) ==
  /\ cmd = "none" /\ runs < MaxRuns
  /\ IF c = "install" THEN picked # {} ELSE picked = config
  /\ c = "refresh" => picked # {}
  /\ runs' = runs + 1
  /\ cmd' = c /\ chosen' = picked /\ todo' = picked /\ held' = Missing
  /\ pc' = IF picked = {} THEN "service" ELSE "script"
  /\ result' = "none"
  /\ UNCHANGED <<settings, script, blocks, config, machine, strayed>>

(* Mutant of End: what is left to do is not dropped. *)
EndLeaves(how) ==
  /\ UNCHANGED <<runs, todo>>
  /\ cmd' = "none" /\ pc' = "none" /\ chosen' = {} /\ held' = Missing
  /\ result' = how

(* The command ends. *)
End(how) ==
  /\ UNCHANGED runs
  /\ cmd' = "none" /\ pc' = "none" /\ chosen' = {} /\ todo' = {} /\ held' = Missing
  /\ result' = how

(* The tool t is done; on to the next one, or to what follows the tools. *)
Onward(t) ==
  IF todo = {t} /\ cmd = "refresh" THEN End("hooked")
  ELSE /\ todo' = todo \ {t} /\ held' = Missing
       /\ pc' = IF todo # {t} THEN "script" ELSE IF Removing THEN "service" ELSE "save"
       /\ UNCHANGED <<runs, cmd, chosen, result>>

(* Mutant of Scripts: only a configured tool gets its scripts. *)
ScriptsIfConfigured(t) ==
  /\ pc = "script" /\ Turn(t)
  /\ IF Removing /\ settings[t] = Missing THEN Onward(t) /\ UNCHANGED script
     ELSE /\ script' = IF Removing THEN script \ ({t} \ {"codex"})
                       ELSE script \cup ({t} \cap Wrapped \cap config)
          /\ pc' = "read" /\ UNCHANGED work
  /\ UNCHANGED <<settings, blocks, config, machine, strayed>>

(* The wrapper scripts go before the hooks, both when they are written and when
   they are removed; Codex's is never removed.  uninstall skips a tool whose
   settings file is gone. *)
Scripts(t) ==
  /\ pc = "script" /\ Turn(t)
  /\ IF Removing /\ settings[t] = Missing THEN Onward(t) /\ UNCHANGED script
     ELSE /\ script' = IF Removing THEN script \ ({t} \ {"codex"}) ELSE script \cup ({t} \cap Wrapped)
          /\ pc' = "read" /\ UNCHANGED work
  /\ UNCHANGED <<settings, blocks, config, machine, strayed>>

Read(t) ==
  /\ pc = "read" /\ Turn(t)
  /\ held' = settings[t]
  /\ pc' = "write"
  /\ UNCHANGED <<settings, script, blocks, config, machine, runs, cmd, chosen, todo, result, strayed>>

(* What was read is written back with the hook put in or taken out, unless that
   changes nothing. *)
Edited(t) == IF Removing THEN Unhook(t, held) ELSE Hook(t, held)
Write(t) ==
  /\ pc = "write" /\ Turn(t) /\ ~Refused(t, held)
  /\ settings' = IF Edited(t) = held THEN settings ELSE [settings EXCEPT ![t] = Edited(t)]
  /\ strayed' = strayed \cup {u \in {t} : Removing /\ Overlooked(t, held) /\ held.ours # "none"}
  /\ IF t = "codex" THEN pc' = "blocks" /\ UNCHANGED work
     ELSE Onward(t)
  /\ UNCHANGED <<script, blocks, config, machine>>

(* The pointer blocks that come with Codex. *)
Blocks(t) ==
  /\ pc = "blocks" /\ Turn(t)
  /\ blocks' = IF Removing THEN {} ELSE Doc
  /\ Onward(t)
  /\ UNCHANGED <<settings, script, config, machine, strayed>>
-----------------------------------------------------------------------------
(* install saves the config, when all hooks are in place. *)
Save ==
  /\ pc = "save"
  /\ config' = chosen
  /\ strayed' = (strayed \cup (config \ chosen)) \ chosen
  /\ pc' = "unit"
  /\ UNCHANGED <<settings, script, blocks, machine, work>>

(* The unit file and the service; a failure is printed and the command goes on. *)
WriteUnit ==
  /\ pc = "unit" /\ ~Removing
  /\ unit' = TRUE \/ ("io" \in Fault /\ UNCHANGED unit)
  /\ pc' = "service"
  /\ UNCHANGED <<settings, script, blocks, config, enabled, up, serves, work, strayed>>

Enable ==
  /\ pc = "service" /\ ~Removing
  /\ \/ unit /\ enabled' = TRUE /\ up' = TRUE /\ serves' = (IF up THEN serves ELSE config)
     \/ (~unit \/ "systemctl" \in Fault) /\ UNCHANGED <<enabled, up, serves>>
  /\ End("hooked")
  /\ UNCHANGED <<settings, script, blocks, config, unit, strayed>>

(* Mutant of Disable: the service is disabled and goes on running. *)
DisableOnly ==
  /\ pc = "service" /\ Removing
  /\ enabled' = FALSE /\ strayed' = strayed \ {"service"}
  /\ pc' = "unit"
  /\ UNCHANGED <<settings, script, blocks, config, unit, up, serves, work>>

Disable ==
  /\ pc = "service" /\ Removing
  /\ \/ enabled' = FALSE /\ up' = FALSE /\ serves' = {}
        /\ strayed' = strayed \ {"service"}
     \/ /\ "systemctl" \in Fault
        /\ strayed' = strayed \cup {"service"} /\ UNCHANGED <<enabled, up, serves>>
  /\ pc' = "unit"
  /\ UNCHANGED <<settings, script, blocks, config, unit, work>>

RemoveUnit ==
  /\ pc = "unit" /\ Removing
  /\ unit' = FALSE \/ ("io" \in Fault /\ UNCHANGED unit)
  /\ pc' = "config"
  /\ UNCHANGED <<settings, script, blocks, config, enabled, up, serves, work, strayed>>

(* "its absence is the 'not installed' signal" (uninstall.rs:102) *)
RemoveConfig ==
  /\ pc = "config"
  /\ config' = {}
  /\ End("none") \/ (pc' = "purge" /\ UNCHANGED work)
  /\ UNCHANGED <<settings, script, blocks, machine, strayed>>

(* --purge: the rest of ~/.carryover, of which the scripts are modelled. *)
Purge ==
  /\ pc = "purge"
  /\ script' = {}
  /\ End("none")
  /\ UNCHANGED <<settings, blocks, config, machine, strayed>>
-----------------------------------------------------------------------------
(* A step fails, Codex's settings do not parse, or the command is killed.  The
   tools an install has hooked are not in the config yet. *)
Fails ==
  /\ End("none")
  /\ strayed' = IF cmd = "install" THEN strayed \cup (chosen \ config) ELSE strayed
Refuse(t) ==
  /\ pc = "write" /\ Turn(t) /\ Refused(t, held)
  /\ Fails
  /\ UNCHANGED <<settings, script, blocks, config, machine>>
Cut ==
  /\ cmd # "none" /\ "io" \in Fault
  /\ Fails
  /\ UNCHANGED <<settings, script, blocks, config, machine>>

(* ... after some of the documents. *)
CutBlocks ==
  /\ pc = "blocks" /\ "io" \in Fault
  /\ \E n \in {{"codex"}, {"codex", "agents"}} :
       blocks' = IF Removing THEN blocks \ n ELSE blocks \cup n
  /\ Fails
  /\ UNCHANGED <<settings, script, config, machine>>

(* Codex's file is written in place: killed in the middle, part of it is there. *)
Tear(t) ==
  /\ t = "codex" /\ pc = "write" /\ Turn(t) /\ ~Refused(t, held)
  /\ Edited(t) # held /\ "torn" \in Fault
  /\ \E s \in Settings :
       /\ s.ours \in {"none", Edited(t).ours}
       /\ s.user => Edited(t).user
       /\ s.rival => Edited(t).rival
       /\ settings' = [settings EXCEPT ![t] = s]
  /\ Fails
  /\ UNCHANGED <<script, blocks, config, machine>>
-----------------------------------------------------------------------------
(* The user or the tool writes something else into the file or takes it out, also
   where the hook would be, or leaves it unreadable or repairs it. *)
Touched(s) ==
  IF s = Missing THEN [ours |-> "none", user |-> TRUE, rival |-> FALSE, broken |-> FALSE]
  ELSE [s EXCEPT !.user = ~s.user]
Edit(t) ==
  /\ "edit" \in Fault
  /\ \/ settings' = [settings EXCEPT ![t] = Touched(@)]
     \/ /\ t \in Wrapped /\ settings[t] # Missing /\ ~Hooked(t)
        /\ settings' = [settings EXCEPT ![t].rival = ~@]
  /\ UNCHANGED <<script, blocks, config, machine, job, strayed>>

Break(t) ==
  /\ "break" \in Fault
  /\ settings[t] # Missing
  /\ settings' = [settings EXCEPT ![t].broken = ~@]
  /\ UNCHANGED <<script, blocks, config, machine, job, strayed>>

(* The service manager starts the daemon at login and after a crash; carryover
   stop, a logout and a crash end it.  What it publishes puts a block into two of
   the documents. *)
Start ==
  /\ unit /\ enabled /\ ~up
  /\ up' = TRUE /\ serves' = config
  /\ UNCHANGED <<settings, script, blocks, config, unit, enabled, job, strayed>>
Stop ==
  /\ up
  /\ up' = FALSE /\ serves' = {}
  /\ UNCHANGED <<settings, script, blocks, config, unit, enabled, job, strayed>>
PublishHome ==
  /\ serves # {}
  /\ blocks' = blocks \cup {"agents", "claude"}
  /\ UNCHANGED <<settings, script, config, machine, job, strayed>>

Next ==
  \/ \E c \in {"install", "refresh", "uninstall"}, p \in SUBSET Tool : Begin(c, p)
  \/ \E t \in Tool :
       Scripts(t) \/ Read(t) \/ Write(t) \/ Blocks(t) \/ Refuse(t) \/ Tear(t)
  \/ \E t \in Shared : Edit(t) \/ Break(t)
  \/ Save \/ WriteUnit \/ Enable \/ Disable \/ RemoveUnit \/ RemoveConfig \/ Purge
  \/ Cut \/ CutBlocks
  \/ Start \/ Stop \/ PublishHome

Spec == Init /\ [][Next]_vars
-----------------------------------------------------------------------------
(* Every hook in a settings file can be found again: config.json names its tool,
   so that uninstall removes it and refresh repairs it, however the commands
   before were cut short.  Exceptions, and the only ones: an install with fewer
   tools, an install that did not get to saving, and an uninstall that could not
   read the file or did not know the form of the hook. *)
Tracked == \A t \in Tool : Hooked(t) =>
    \/ t \in config \cup strayed
    \/ cmd = "install" /\ t \in chosen

(* A hook that names a script that is not there is one that the next refresh
   repairs or the next uninstall removes, under the same exceptions; a new hook
   is never without its script. *)
Runnable == \A t \in Wrapped : Names(t) /\ t \notin script => t \in config \cup strayed

(* install and refresh repair: when one has ended well, every tool in config.json
   has the current hook, its script and its blocks, whatever was left by the
   commands before ("re-applies hooks idempotently", CHANGELOG.md:70). *)
Repaired ==
  result = "hooked" =>
    /\ \A t \in config : Names(t) /\ (t \in Wrapped => t \in script)
    /\ "codex" \in config => blocks = Doc

(* The service does not outlive the installation: a daemon that runs or will be
   started has a config to read, and it serves no tool that was uninstalled,
   unless the service manager did not answer when it was to be disabled.  A tool
   left out of a second install is served on. *)
NoGhost ==
  \/ "service" \in strayed
  \/ /\ up \/ (unit /\ enabled) => config # {}
     /\ serves \subseteq config \cup strayed

(* A command takes from a settings file only what Carryover put there ("Entries
   from other tools or plugins in the same array are preserved",
   hooks_writer.rs:63), unless the file did not parse, was changed between
   reading and writing it, or was cut short in writing.  Only install and refresh
   take what is in the place of the hook; uninstall leaves that, too. *)
Excused(t) ==
  \/ UNCHANGED job
  \/ held # settings[t]
  \/ settings[t].broken
  \/ t = "codex" /\ cmd' = "none"
ForeignKept ==
  [][\A t \in Tool :
       /\ Own(t) /\ ~Own(t)' => Excused(t)
       /\ Rival(t) /\ ~Rival(t)' => Excused(t) \/ ~Removing]_vars
=============================================================================
