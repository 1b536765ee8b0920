--------------------------- MODULE InstallProofs ---------------------------
(***************************************************************************)
(* Proofs about Install, for any tools, shared files, number of commands   *)
(* and faults: type correctness, every hook can be found again, no hook    *)
(* lacks its script, install and refresh repair, the service does not      *)
(* outlive the installation, and what else is in a settings file is kept.  *)
(***************************************************************************)
EXTENDS Install, TLAPS

Placing  == cmd \in {"install", "refresh"}
(* The tools whose settings file the running command has dealt with. *)
Dealt(t) == t \in chosen \ todo \/ (pc = "blocks" /\ t = "codex")

(* Which step belongs to which command, and what config.json says meanwhile. *)
Control ==
  /\ cmd = "none" <=> pc = "none"
  /\ cmd # "none" => result = "none"
  /\ pc \in {"script", "read", "write", "blocks"} => todo # {}
  /\ pc = "blocks" => todo = {"codex"}
  /\ pc \in {"save", "unit", "service", "config", "purge"} => todo = {} /\ cmd # "refresh"
  /\ pc = "save" => cmd = "install"
  /\ pc \in {"config", "purge"} => cmd = "uninstall"
  /\ cmd = "install" => chosen # {} /\ (pc \in {"unit", "service"} => config = chosen)
  /\ cmd = "refresh" => config = chosen
  /\ cmd = "uninstall" => config = (IF pc = "purge" THEN {} ELSE chosen)

(* Nobody but the commands touches a hook, so that what was read of it holds until
   it is written. *)
Seen ==
  pc = "write" => \A t \in Tool : Turn(t) =>
    IF held = Missing THEN ~Hooked(t) ELSE settings[t] # Missing /\ settings[t].ours = held.ours

(* What uninstall has dealt with is unhooked, and what it overlooked is recorded. *)
Cleared == Removing => \A t \in Tool : Dealt(t) /\ Hooked(t) => t \in strayed

(* What install and refresh have dealt with is in place. *)
Placed ==
  Placing => /\ \A t \in Tool : Dealt(t) => Names(t)
             /\ \A t \in Wrapped : Dealt(t) \/ (pc \in {"read", "write"} /\ Turn(t)) => t \in script
             /\ "codex" \in chosen \ todo => blocks = Doc

(* Once the service manager has answered, nothing runs. *)
Quiet ==
  /\ ~up => serves = {}
  /\ Removing /\ pc \in {"unit", "config", "purge"} => "service" \in strayed \/ (~up /\ ~enabled)

IInv ==
  /\ TypeOK /\ Control /\ Seen /\ Cleared /\ Placed /\ Quiet
  /\ Tracked /\ Runnable /\ Repaired /\ NoGhost

USE DEF Wrapped, Doc, Removing

(* A tool has its turn only while it is to be dealt with, and Codex comes last. *)
LEMMA TurnFacts ==
  ASSUME NEW t \in Tool, Turn(t)
  PROVE  /\ t \in todo
         /\ t = "codex" => \A u \in todo \cap Tool : u = "codex"
         /\ \A u \in Tool : Turn(u) => u = t
<1>1. \A u \in Tool : u \in {"claude", "cursor", "codex"}
  BY InstallAssumption
<1>2. Rank["claude"] = 1 /\ Rank["cursor"] = 2 /\ Rank["codex"] = 3
  BY DEF Rank
<1> QED
  BY <1>1, <1>2 DEF Turn

(* What the two edits make of a settings file. *)
LEMMA EditFacts ==
  ASSUME NEW t \in Tool, NEW s \in Settings \cup {Missing}
  PROVE  /\ Hook(t, s) \in Settings /\ Hook(t, s).ours = "current"
         /\ Unhook(t, s) \in Settings \cup {Missing}
         /\ s # Missing /\ ~Overlooked(t, s) => Unhook(t, s) # Missing /\ Unhook(t, s).ours = "none"
         /\ s = Missing \/ Overlooked(t, s) => Unhook(t, s) = s
         /\ s # Missing /\ s.user /\ ~s.broken
              => Hook(t, s).user /\ Unhook(t, s) # Missing /\ Unhook(t, s).user
         /\ s # Missing /\ s.rival => Unhook(t, s) # Missing /\ Unhook(t, s).rival
<1>1. Missing \notin Settings
  BY InstallAssumption DEF Settings
<1> QED
  BY <1>1 DEF Hook, Alone, Unhook, Overlooked, Settings

(* The command goes on to the step that comes next. *)
LEMMA OnwardControl ==
  ASSUME TypeOK, Control, NEW t \in todo, Onward(t), config' = config, pc \in {"script", "write", "blocks"}
  PROVE  Control'
<1>1. cmd \in {"install", "refresh", "uninstall"} /\ t \in chosen
  BY DEF TypeOK, Control
<1>2. CASE todo = {t} /\ cmd = "refresh"
  BY <1>1, <1>2 DEF Control, Onward, End
<1>3. CASE todo = {t} /\ cmd # "refresh"
  <2>1. /\ todo' = {} /\ UNCHANGED <<cmd, chosen, result>>
        /\ pc' = IF cmd = "uninstall" THEN "service" ELSE "save"
    BY <1>1, <1>3 DEF Onward
  <2> QED
    BY <1>1, <1>3, <2>1 DEF Control
<1>4. CASE todo # {t}
  <2>0. \E u \in todo : u # t
    BY <1>4
  <2>1. todo' # {} /\ pc' = "script" /\ UNCHANGED <<cmd, chosen, result>>
    BY <2>0, <1>1, <1>4 DEF Onward
  <2> QED
    BY <1>1, <2>1 DEF Control
<1> QED
  BY <1>2, <1>3, <1>4

(* The invariant holds across every step. *)
LEMMA StepInvariant == IInv /\ [Next]_vars => IInv'
<1> SUFFICES ASSUME IInv, [Next]_vars PROVE IInv'
  OBVIOUS
<1> USE InstallAssumption DEF IInv, vars, machine, job, work
<1>1. ASSUME NEW c \in {"install", "refresh", "uninstall"}, NEW p \in SUBSET Tool, Begin(c, p) PROVE IInv'
  <2>1. TypeOK'
    BY <1>1 DEF TypeOK, Begin
  <2>2. Control'
    BY <1>1 DEF Control, Begin
  <2>3. Seen'
    BY <1>1 DEF Seen, Hooked, Turn, Begin
  <2>4. Cleared'
    BY <1>1 DEF Cleared, Dealt, Hooked, Begin
  <2>5. Placed'
    BY <1>1 DEF Placed, Placing, Dealt, Names, Turn, Begin
  <2>6. Quiet'
    BY <1>1 DEF Quiet, Begin
  <2>7. Tracked'
    BY <1>1 DEF Tracked, Hooked, Begin
  <2>8. Runnable'
    BY <1>1 DEF Runnable, Names, Begin
  <2>9. Repaired'
    BY <1>1 DEF Repaired, Names, Begin
  <2>10. NoGhost'
    BY <1>1 DEF NoGhost, Begin
  <2> QED
    BY <2>1, <2>2, <2>3, <2>4, <2>5, <2>6, <2>7, <2>8, <2>9, <2>10
<1>2. ASSUME NEW t \in Tool, Scripts(t) PROVE IInv'
  <2>0. t \in todo /\ (t = "codex" => todo = {"codex"}) /\ \A u \in Tool : Turn(u) => u = t
    BY <1>2, TurnFacts DEF TypeOK, Scripts
  <2>1. TypeOK'
    BY <1>2 DEF TypeOK, Scripts, Onward, End
  <2>2. Control'
    <3>1. CASE pc' = "read" /\ UNCHANGED work
      BY <1>2, <2>0, <3>1 DEF Control, Scripts
    <3>2. CASE Onward(t)
      <4>1. config' = config /\ pc \in {"script", "write", "blocks"}
        BY <1>2 DEF Scripts
      <4> QED
        BY <2>0, <3>2, <4>1, OnwardControl
    <3> QED
      BY <1>2, <3>1, <3>2 DEF Scripts
  <2>3. Seen'
    BY <1>2 DEF Seen, Hooked, Turn, Scripts, Onward, End
  <2>4. Cleared'
    BY <1>2 DEF Cleared, Dealt, Hooked, Scripts, Onward, End
  <2>5. Placed'
    BY <1>2, <2>0 DEF Placed, Placing, Dealt, Names, Turn, Scripts, Onward, End, TypeOK, Control
  <2>6. Quiet'
    BY <1>2 DEF Quiet, Scripts, Onward, End
  <2>7. Tracked'
    BY <1>2 DEF Tracked, Hooked, Scripts, Onward, End
  <2>8. Runnable'
    BY <1>2, <2>0 DEF Runnable, Names, Scripts, Onward, End, TypeOK, Control
  <2>9. Repaired'
    BY <1>2, <2>0 DEF Repaired, Names, Scripts, Onward, End, Placed, Placing, Dealt, Control, TypeOK
  <2>10. NoGhost'
    BY <1>2 DEF NoGhost, Scripts, Onward, End
  <2> QED
    BY <2>1, <2>2, <2>3, <2>4, <2>5, <2>6, <2>7, <2>8, <2>9, <2>10
<1>3. ASSUME NEW t \in Tool, Read(t) PROVE IInv'
  <2>0. t \in todo /\ (t = "codex" => todo = {"codex"}) /\ \A u \in Tool : Turn(u) => u = t
    BY <1>3, TurnFacts DEF TypeOK, Read
  <2>1. TypeOK'
    BY <1>3 DEF TypeOK, Read
  <2>2. Control'
    BY <1>3 DEF Control, Read
  <2>3. Seen'
    BY <1>3, <2>0 DEF Seen, Hooked, Turn, Read, TypeOK
  <2>4. Cleared'
    BY <1>3 DEF Cleared, Dealt, Hooked, Read
  <2>5. Placed'
    BY <1>3 DEF Placed, Placing, Dealt, Names, Turn, Read
  <2>6. Quiet'
    BY <1>3 DEF Quiet, Read
  <2>7. Tracked'
    BY <1>3 DEF Tracked, Hooked, Read
  <2>8. Runnable'
    BY <1>3 DEF Runnable, Names, Read
  <2>9. Repaired'
    BY <1>3 DEF Repaired, Names, Read
  <2>10. NoGhost'
    BY <1>3 DEF NoGhost, Read
  <2> QED
    BY <2>1, <2>2, <2>3, <2>4, <2>5, <2>6, <2>7, <2>8, <2>9, <2>10
<1>4. ASSUME NEW t \in Tool, Write(t) PROVE IInv'
  <2>0. /\ t \in todo /\ pc = "write"
        /\ t = "codex" => todo = {"codex"}
        /\ \A u \in Tool : Turn(u) => u = t
    BY <1>4, TurnFacts DEF Write, TypeOK
  <2>1. /\ t \in todo /\ t \in chosen /\ pc = "write" /\ cmd # "none"
        /\ t = "codex" => todo = {"codex"}
        /\ \A u \in Tool : Turn(u) => u = t
    BY <2>0 DEF TypeOK, Control
  <2>2. /\ Hook(t, held) \in Settings /\ Hook(t, held).ours = "current"
        /\ Unhook(t, held) \in Settings \cup {Missing}
        /\ held # Missing /\ ~Overlooked(t, held)
             => Unhook(t, held) # Missing /\ Unhook(t, held).ours = "none"
        /\ held = Missing \/ Overlooked(t, held) => Unhook(t, held) = held
    BY EditFacts DEF TypeOK
  <2>3. IF held = Missing THEN ~Hooked(t) ELSE settings[t] # Missing /\ settings[t].ours = held.ours
    BY <1>4, <2>1 DEF Seen, Write
  <2>4. /\ settings' \in [Tool -> Settings \cup {Missing}]
        /\ \A u \in Tool : u # t => settings'[u] = settings[u]
        /\ settings'[t] = IF Edited(t) = held THEN settings[t] ELSE Edited(t)
    BY <1>4, <2>2 DEF TypeOK, Write, Edited
  <2>5. Removing => (Hooked(t)' => t \in strayed')
    <3> SUFFICES ASSUME Removing, Hooked(t)' PROVE t \in strayed'
      OBVIOUS
    <3>1. Edited(t) = Unhook(t, held)
      BY DEF Edited
    <3>2. CASE held = Missing
      BY <3>1, <3>2, <2>2, <2>3, <2>4 DEF Hooked
    <3>3. CASE held # Missing /\ Overlooked(t, held)
      <4>1. settings'[t] = settings[t] /\ held.ours # "none"
        BY <3>1, <3>3, <2>2, <2>3, <2>4 DEF Hooked
      <4> QED
        BY <4>1, <3>3, <1>4 DEF Write
    <3>4. CASE held # Missing /\ ~Overlooked(t, held)
      BY <3>1, <3>4, <2>2, <2>3, <2>4 DEF Hooked
    <3> QED
      BY <3>2, <3>3, <3>4
  <2>6. ~Removing => Names(t)'
    <3> SUFFICES ASSUME ~Removing PROVE Names(t)'
      OBVIOUS
    <3>1. Edited(t) = Hook(t, held) /\ Missing \notin Settings
      BY DEF Edited, Settings
    <3> QED
      BY <3>1, <2>2, <2>3, <2>4 DEF Names
  <2>7. UNCHANGED <<script, blocks, config, machine, cmd, chosen, runs>> \/ (cmd' = "none" /\ UNCHANGED <<script, blocks, config, machine, runs>>)
    BY <1>4 DEF Write, Onward, End
  <2>8. \A u \in Tool : u # t => (Hooked(u)' <=> Hooked(u)) /\ (Names(u)' <=> Names(u))
    BY <2>4 DEF Hooked, Names
  <2>9. strayed \subseteq strayed' /\ strayed' \subseteq strayed \cup {t}
    BY <1>4 DEF Write
  <2>10. t = "codex" => pc' = "blocks" /\ UNCHANGED work
    BY <1>4 DEF Write
  <2>11. t # "codex" => Onward(t)
    BY <1>4 DEF Write
  <2>12. TypeOK'
    <3>1. UNCHANGED <<script, blocks, config, unit, enabled, up, serves, runs>>
      BY <2>7
    <3>2. strayed' \subseteq Tool \cup {"service"}
      BY <2>1, <2>9 DEF TypeOK
    <3>3. CASE t = "codex"
      BY <2>4, <2>10, <3>1, <3>2, <3>3 DEF TypeOK
    <3>4. CASE t # "codex"
      <4>1. /\ cmd' \in {cmd, "none"} /\ pc' \in {"none", "script", "service", "save"}
            /\ chosen' \in {chosen, {}} /\ todo' \subseteq chosen' /\ held' = Missing
            /\ result' \in {result, "hooked"}
        BY <2>11, <3>4 DEF TypeOK, Onward, End
      <4> QED
        BY <2>4, <3>1, <3>2, <4>1 DEF TypeOK
    <3> QED
      BY <3>3, <3>4
  <2>13. Control'
    <3>1. CASE t = "codex"
      BY <2>1, <2>7, <2>10, <3>1 DEF Control
    <3>2. CASE t # "codex"
      <4>1. Onward(t) /\ config' = config
        BY <2>7, <2>11, <3>2
      <4> QED
        BY <2>1, <4>1, OnwardControl
    <3> QED
      BY <3>1, <3>2
  <2>14. Seen'
    BY <2>10, <2>11 DEF Seen, Onward, End
  <2>15. Cleared'
    BY <2>1, <2>5, <2>8, <2>9, <2>10, <2>11 DEF Cleared, Dealt, Onward, End
  <2>16. Placed'
    <3>1. ~Removing /\ cmd # "none" => Placing
      BY DEF TypeOK, Placing
    <3>2. Placing' => /\ UNCHANGED <<cmd, chosen, script, blocks>> /\ ~Removing
                      /\ \A u \in Tool : Dealt(u)' => u = t \/ Dealt(u)
                      /\ pc' \notin {"read", "write"}
                      /\ (chosen \ todo)' \subseteq (chosen \ todo) \cup {t}
                      /\ t = "codex" => UNCHANGED todo
      BY <2>1, <2>7, <2>10, <2>11 DEF Placing, Onward, End, Dealt
    <3> QED
      BY <2>1, <2>6, <2>8, <3>1, <3>2, <1>4 DEF Placed, Placing, Write
  <2>17. Quiet' /\ NoGhost'
    BY <2>1, <2>9, <2>10, <2>11, <1>4 DEF Quiet, NoGhost, Write, Onward, End
  <2>18. Tracked'
    <3>1. cmd = "install" => cmd' = "install" /\ chosen' = chosen
      BY <2>10, <2>11 DEF Onward, End
    <3>2. cmd # "install" => chosen = config
      BY <2>1 DEF Control, TypeOK
    <3>3. config' = config
      BY <2>7
    <3>4. \A u \in Tool : u # t /\ Hooked(u)' => u \in config' \cup strayed' \/ (cmd' = "install" /\ u \in chosen')
      BY <2>8, <2>9, <3>1, <3>3 DEF Tracked
    <3>5. t \in config' \cup strayed' \/ (cmd' = "install" /\ t \in chosen')
      BY <2>1, <3>1, <3>2, <3>3
    <3> QED
      BY <3>4, <3>5 DEF Tracked
  <2>19. Runnable'
    <3>1. t \in Wrapped /\ t \notin script => t \in config \cup strayed
      <4>1. CASE Removing
        BY <2>1, <4>1 DEF Control
      <4>2. CASE ~Removing
        BY <2>1, <4>2, <1>4 DEF Placed, Placing, TypeOK, Write
      <4> QED
        BY <4>1, <4>2
    <3> QED
      BY <3>1, <2>7, <2>8, <2>9 DEF Runnable
  <2>20. Repaired'
    <3>1. CASE t # "codex" /\ todo = {t} /\ cmd = "refresh"
      <4>1. \A u \in Tool : u \in config => Names(u)'
        BY <2>1, <2>6, <2>8, <3>1 DEF Placed, Placing, Dealt, Control
      <4>2. \A u \in Wrapped : u \in config => u \in script
        BY <2>1, <3>1, <1>4 DEF Placed, Placing, Dealt, Control, Write
      <4>3. "codex" \in config => blocks = Doc
        BY <3>1 DEF Placed, Placing, Control
      <4> QED
        BY <4>1, <4>2, <4>3, <2>7 DEF Repaired, TypeOK
    <3>2. CASE ~(t # "codex" /\ todo = {t} /\ cmd = "refresh")
      <4>1. result' = "none"
        BY <2>1, <2>10, <2>11, <3>2 DEF Onward, Control
      <4> QED
        BY <4>1 DEF Repaired
    <3> QED
      BY <3>1, <3>2
  <2> QED
    BY <2>12, <2>13, <2>14, <2>15, <2>16, <2>17, <2>18, <2>19, <2>20
<1>5. ASSUME NEW t \in Tool, Blocks(t) PROVE IInv'
  <2>0. t \in todo /\ (t = "codex" => todo = {"codex"}) /\ \A u \in Tool : Turn(u) => u = t
    BY <1>5, TurnFacts DEF TypeOK, Blocks
  <2>1. TypeOK'
    BY <1>5 DEF TypeOK, Blocks, Onward, End
  <2>2. Control'
    BY <1>5, <2>0 DEF Control, Blocks, Onward, End, TypeOK
  <2>3. Seen'
    BY <1>5 DEF Seen, Hooked, Turn, Blocks, Onward, End
  <2>4. Cleared'
    BY <1>5, <2>0 DEF Cleared, Dealt, Hooked, Blocks, Onward, End, Control, TypeOK
  <2>5. Placed'
    BY <1>5, <2>0 DEF Placed, Placing, Dealt, Names, Turn, Blocks, Onward, End, Control, TypeOK
  <2>6. Quiet'
    BY <1>5 DEF Quiet, Blocks, Onward, End
  <2>7. Tracked'
    BY <1>5 DEF Tracked, Hooked, Blocks, Onward, End
  <2>8. Runnable'
    BY <1>5 DEF Runnable, Names, Blocks, Onward, End
  <2>9. Repaired'
    BY <1>5, <2>0 DEF Repaired, Names, Blocks, Onward, End, Control, TypeOK, Placed, Placing, Dealt
  <2>10. NoGhost'
    BY <1>5 DEF NoGhost, Blocks, Onward, End
  <2> QED
    BY <2>1, <2>2, <2>3, <2>4, <2>5, <2>6, <2>7, <2>8, <2>9, <2>10
<1>6. ASSUME NEW t \in Tool, Refuse(t) PROVE IInv'
  <2>1. TypeOK'
    BY <1>6 DEF TypeOK, Refuse, Fails, End
  <2>2. Control'
    BY <1>6 DEF Control, Refuse, Fails, End
  <2>3. Seen'
    BY <1>6 DEF Seen, Hooked, Turn, Refuse, Fails, End
  <2>4. Cleared'
    BY <1>6 DEF Cleared, Dealt, Hooked, Refuse, Fails, End
  <2>5. Placed'
    BY <1>6 DEF Placed, Placing, Dealt, Names, Turn, Refuse, Fails, End
  <2>6. Quiet'
    BY <1>6 DEF Quiet, Refuse, Fails, End
  <2>7. Tracked'
    BY <1>6 DEF Tracked, Hooked, Refuse, Fails, End
  <2>8. Runnable'
    BY <1>6 DEF Runnable, Names, Refuse, Fails, End
  <2>9. Repaired'
    BY <1>6 DEF Repaired, Names, Refuse, Fails, End
  <2>10. NoGhost'
    BY <1>6 DEF NoGhost, Refuse, Fails, End
  <2> QED
    BY <2>1, <2>2, <2>3, <2>4, <2>5, <2>6, <2>7, <2>8, <2>9, <2>10
<1>7. ASSUME NEW t \in Tool, Tear(t) PROVE IInv'
  <2>0. \E s \in Settings : /\ s.ours \in {"none", Edited(t).ours}
                            /\ settings' = [settings EXCEPT ![t] = s]
    BY ONLY <1>7 DEF Tear
  <2>1. PICK s \in Settings : /\ s.ours \in {"none", Edited(t).ours}
                              /\ settings' = [settings EXCEPT ![t] = s]
    BY ONLY <2>0
  <2>2. t \in todo /\ t \in chosen /\ pc = "write" /\ cmd # "none"
    BY <1>7, TurnFacts DEF Tear, TypeOK, Control
  <2>3. t \in config' \cup strayed' \/ s.ours = "none"
    <3>1. CASE Removing
      BY <2>1, <2>2, <3>1, <1>7 DEF Control, Tear
    <3>2. CASE ~Removing
      BY <2>2, <3>2, <1>7 DEF Control, Tear, Fails, TypeOK
    <3> QED
      BY <3>1, <3>2
  <2>4. /\ settings' \in [Tool -> Settings \cup {Missing}]
        /\ \A u \in Tool : settings'[u] # settings[u] => u = t /\ settings'[u] = s
    BY <2>1 DEF TypeOK
  <2>5. config \cup strayed \subseteq config' \cup strayed' /\ UNCHANGED <<script, config>>
    BY <1>7 DEF Tear, Fails
  <2>6. TypeOK'
    BY <1>7, <2>4 DEF TypeOK, Tear, Fails, End
  <2>7. Control' /\ Seen' /\ Cleared' /\ Placed'
    BY <1>7 DEF Control, Seen, Cleared, Placed, Placing, Tear, Fails, End
  <2>8. Quiet' /\ NoGhost' /\ Repaired'
    BY <1>7 DEF Quiet, NoGhost, Repaired, Tear, Fails, End
  <2>9. Tracked'
    <3>1. \A u \in Tool : u # t => (Hooked(u)' <=> Hooked(u))
      BY <2>4 DEF Hooked
    <3>2. \A u \in chosen : u \in config' \cup strayed' \/ cmd # "install"
      BY <1>7 DEF Tear, Fails
    <3>3. Hooked(t)' => t \in config' \cup strayed'
      BY <2>1, <2>3, <2>4 DEF Hooked, TypeOK
    <3> QED
      BY <3>1, <3>2, <3>3, <2>5 DEF Tracked
  <2>10. Runnable'
    BY <2>3, <2>4, <2>5, <2>1 DEF Runnable, Names, TypeOK
  <2> QED
    BY <2>6, <2>7, <2>8, <2>9, <2>10
<1>8. ASSUME NEW t \in Shared, Edit(t) PROVE IInv'
  <2>1. Missing \notin Settings
    BY DEF Settings
  <2>2. t \in Tool /\ settings[t] \in Settings \cup {Missing}
    BY DEF TypeOK
  <2>3. PICK s \in Settings : /\ settings' = [settings EXCEPT ![t] = s]
                              /\ s.ours = IF settings[t] = Missing THEN "none" ELSE settings[t].ours
    <3>1. /\ Touched(settings[t]) \in Settings
          /\ Touched(settings[t]).ours = IF settings[t] = Missing THEN "none" ELSE settings[t].ours
      BY <2>2 DEF Touched, Settings
    <3>2. settings[t] # Missing => /\ [settings[t] EXCEPT !.rival = ~@] \in Settings
                                   /\ [settings[t] EXCEPT !.rival = ~@].ours = settings[t].ours
      BY <2>2 DEF Settings
    <3> QED
      BY <3>1, <3>2, <1>8 DEF Edit
  <2>4. /\ settings' \in [Tool -> Settings \cup {Missing}]
        /\ \A u \in Tool : settings'[u] # settings[u] => u = t /\ settings'[u] = s
    BY <2>2, <2>3 DEF TypeOK
  <2>5. \A u \in Tool : /\ Hooked(u)' <=> Hooked(u)
                        /\ Names(u)' <=> Names(u)
                        /\ settings[u] # Missing => settings'[u] # Missing /\ settings'[u].ours = settings[u].ours
    BY <2>1, <2>3, <2>4 DEF Hooked, Names
  <2>6. UNCHANGED <<script, blocks, config, machine, job, strayed>>
    BY <1>8 DEF Edit
  <2>7. TypeOK'
    BY <2>4, <2>6 DEF TypeOK
  <2>8. Control' /\ Quiet' /\ NoGhost'
    BY <2>6 DEF Control, Quiet, NoGhost
  <2>9. Seen'
    BY <2>5, <2>6 DEF Seen, Turn
  <2>10. Cleared' /\ Placed'
    BY <2>5, <2>6 DEF Cleared, Placed, Placing, Dealt, Turn
  <2>11. Tracked'
    BY <2>5, <2>6 DEF Tracked
  <2>12. Runnable'
    BY <2>5, <2>6 DEF Runnable
  <2>13. Repaired'
    <3>1. config \subseteq Tool
      BY DEF TypeOK
    <3> QED
      BY <2>5, <2>6, <3>1 DEF Repaired
  <2> QED
    BY <2>7, <2>8, <2>9, <2>10, <2>11, <2>12, <2>13
<1>9. ASSUME NEW t \in Shared, Break(t) PROVE IInv'
  <2>1. Missing \notin Settings
    BY DEF Settings
  <2>2. t \in Tool /\ settings[t] \in Settings \cup {Missing}
    BY DEF TypeOK
  <2>3. PICK s \in Settings : /\ settings' = [settings EXCEPT ![t] = s]
                              /\ s.ours = IF settings[t] = Missing THEN "none" ELSE settings[t].ours
    <3>1. settings[t] # Missing
      BY <1>9 DEF Break
    <3>2. [settings[t] EXCEPT !.broken = ~@] \in Settings
      BY <2>2, <3>1 DEF Settings
    <3>3. [settings[t] EXCEPT !.broken = ~@].ours = settings[t].ours
      BY <2>2, <3>1
    <3> QED
      BY <3>1, <3>2, <3>3, <1>9 DEF Break
  <2>4. /\ settings' \in [Tool -> Settings \cup {Missing}]
        /\ \A u \in Tool : settings'[u] # settings[u] => u = t /\ settings'[u] = s
    BY <2>2, <2>3 DEF TypeOK
  <2>5. \A u \in Tool : /\ Hooked(u)' <=> Hooked(u)
                        /\ Names(u)' <=> Names(u)
                        /\ settings[u] # Missing => settings'[u] # Missing /\ settings'[u].ours = settings[u].ours
    BY <2>1, <2>3, <2>4 DEF Hooked, Names
  <2>6. UNCHANGED <<script, blocks, config, machine, job, strayed>>
    BY <1>9 DEF Break
  <2>7. TypeOK'
    BY <2>4, <2>6 DEF TypeOK
  <2>8. Control' /\ Quiet' /\ NoGhost'
    BY <2>6 DEF Control, Quiet, NoGhost
  <2>9. Seen'
    BY <2>5, <2>6 DEF Seen, Turn
  <2>10. Cleared' /\ Placed'
    BY <2>5, <2>6 DEF Cleared, Placed, Placing, Dealt, Turn
  <2>11. Tracked'
    BY <2>5, <2>6 DEF Tracked
  <2>12. Runnable'
    BY <2>5, <2>6 DEF Runnable
  <2>13. Repaired'
    <3>1. config \subseteq Tool
      BY DEF TypeOK
    <3> QED
      BY <2>5, <2>6, <3>1 DEF Repaired
  <2> QED
    BY <2>7, <2>8, <2>9, <2>10, <2>11, <2>12, <2>13
<1>10. ASSUME Save PROVE IInv'
  <2>1. TypeOK'
    BY <1>10 DEF TypeOK, Save
  <2>2. Control'
    BY <1>10 DEF Control, Save
  <2>3. Seen'
    BY <1>10 DEF Seen, Hooked, Turn, Save
  <2>4. Cleared'
    BY <1>10 DEF Cleared, Dealt, Hooked, Save, Control
  <2>5. Placed'
    BY <1>10 DEF Placed, Placing, Dealt, Names, Turn, Save
  <2>6. Quiet'
    BY <1>10 DEF Quiet, Save, Control
  <2>7. Tracked'
    BY <1>10 DEF Tracked, Hooked, Save
  <2>8. Runnable'
    BY <1>10 DEF Runnable, Names, Save
  <2>9. Repaired'
    BY <1>10 DEF Repaired, Names, Save, Control
  <2>10. NoGhost'
    <3>1. "service" \notin chosen /\ chosen # {} /\ config' = chosen
      BY <1>10 DEF Control, Save, TypeOK
    <3>2. strayed' = (strayed \cup (config \ chosen)) \ chosen /\ UNCHANGED <<up, serves, unit, enabled>>
      BY <1>10 DEF Save
    <3>3. "service" \in strayed => "service" \in strayed'
      BY <3>1, <3>2
    <3>4. serves \subseteq config \cup strayed => serves' \subseteq config' \cup strayed'
      BY <3>1, <3>2
    <3> QED
      BY <3>1, <3>2, <3>3, <3>4 DEF NoGhost
  <2> QED
    BY <2>1, <2>2, <2>3, <2>4, <2>5, <2>6, <2>7, <2>8, <2>9, <2>10
<1>11. ASSUME WriteUnit PROVE IInv'
  <2>1. TypeOK'
    BY <1>11 DEF TypeOK, WriteUnit
  <2>2. Control'
    BY <1>11 DEF Control, WriteUnit
  <2>3. Seen'
    BY <1>11 DEF Seen, Hooked, Turn, WriteUnit
  <2>4. Cleared'
    BY <1>11 DEF Cleared, Dealt, Hooked, WriteUnit
  <2>5. Placed'
    BY <1>11 DEF Placed, Placing, Dealt, Names, Turn, WriteUnit
  <2>6. Quiet'
    BY <1>11 DEF Quiet, WriteUnit
  <2>7. Tracked'
    BY <1>11 DEF Tracked, Hooked, WriteUnit
  <2>8. Runnable'
    BY <1>11 DEF Runnable, Names, WriteUnit
  <2>9. Repaired'
    BY <1>11 DEF Repaired, Names, WriteUnit
  <2>10. NoGhost'
    BY <1>11 DEF NoGhost, WriteUnit, Control, TypeOK
  <2> QED
    BY <2>1, <2>2, <2>3, <2>4, <2>5, <2>6, <2>7, <2>8, <2>9, <2>10
<1>12. ASSUME Enable PROVE IInv'
  <2>1. TypeOK'
    BY <1>12 DEF TypeOK, Enable, End
  <2>2. Control'
    BY <1>12 DEF Control, Enable, End
  <2>3. Seen'
    BY <1>12 DEF Seen, Hooked, Turn, Enable, End
  <2>4. Cleared'
    BY <1>12 DEF Cleared, Dealt, Hooked, Enable, End
  <2>5. Placed'
    BY <1>12 DEF Placed, Placing, Dealt, Names, Turn, Enable, End
  <2>6. Quiet'
    BY <1>12 DEF Quiet, Enable, End
  <2>7. Tracked'
    BY <1>12 DEF Tracked, Hooked, Enable, End, Control
  <2>8. Runnable'
    BY <1>12 DEF Runnable, Names, Enable, End
  <2>9. Repaired'
    BY <1>12 DEF Repaired, Names, Enable, End, Control, Placed, Placing, Dealt, TypeOK
  <2>10. NoGhost'
    BY <1>12 DEF NoGhost, Enable, End, Control, Quiet, TypeOK
  <2> QED
    BY <2>1, <2>2, <2>3, <2>4, <2>5, <2>6, <2>7, <2>8, <2>9, <2>10
<1>13. ASSUME Disable PROVE IInv'
  <2>1. TypeOK'
    BY <1>13 DEF TypeOK, Disable
  <2>2. Control'
    BY <1>13 DEF Control, Disable
  <2>3. Seen'
    BY <1>13 DEF Seen, Hooked, Turn, Disable
  <2>4. Cleared'
    BY <1>13 DEF Cleared, Dealt, Hooked, Disable
  <2>5. Placed'
    BY <1>13 DEF Placed, Placing, Dealt, Names, Turn, Disable
  <2>6. Quiet'
    BY <1>13 DEF Quiet, Disable
  <2>7. Tracked'
    BY <1>13 DEF Tracked, Hooked, Disable
  <2>8. Runnable'
    BY <1>13 DEF Runnable, Names, Disable
  <2>9. Repaired'
    BY <1>13 DEF Repaired, Names, Disable
  <2>10. NoGhost'
    BY <1>13 DEF NoGhost, Disable
  <2> QED
    BY <2>1, <2>2, <2>3, <2>4, <2>5, <2>6, <2>7, <2>8, <2>9, <2>10
<1>14. ASSUME RemoveUnit PROVE IInv'
  <2>1. TypeOK'
    BY <1>14 DEF TypeOK, RemoveUnit
  <2>2. Control'
    BY <1>14 DEF Control, RemoveUnit
  <2>3. Seen'
    BY <1>14 DEF Seen, Hooked, Turn, RemoveUnit
  <2>4. Cleared'
    BY <1>14 DEF Cleared, Dealt, Hooked, RemoveUnit
  <2>5. Placed'
    BY <1>14 DEF Placed, Placing, Dealt, Names, Turn, RemoveUnit
  <2>6. Quiet'
    BY <1>14 DEF Quiet, RemoveUnit
  <2>7. Tracked'
    BY <1>14 DEF Tracked, Hooked, RemoveUnit
  <2>8. Runnable'
    BY <1>14 DEF Runnable, Names, RemoveUnit
  <2>9. Repaired'
    BY <1>14 DEF Repaired, Names, RemoveUnit
  <2>10. NoGhost'
    BY <1>14 DEF NoGhost, RemoveUnit
  <2> QED
    BY <2>1, <2>2, <2>3, <2>4, <2>5, <2>6, <2>7, <2>8, <2>9, <2>10
<1>15. ASSUME RemoveConfig PROVE IInv'
  <2>1. TypeOK'
    BY <1>15 DEF TypeOK, RemoveConfig, End
  <2>2. Control'
    BY <1>15 DEF Control, RemoveConfig, End
  <2>3. Seen'
    BY <1>15 DEF Seen, Hooked, Turn, RemoveConfig, End
  <2>4. Cleared'
    BY <1>15 DEF Cleared, Dealt, Hooked, RemoveConfig, End
  <2>5. Placed'
    BY <1>15 DEF Placed, Placing, Dealt, Names, Turn, RemoveConfig, End
  <2>6. Quiet'
    BY <1>15 DEF Quiet, RemoveConfig, End
  <2>7. Tracked'
    BY <1>15 DEF Tracked, Hooked, RemoveConfig, End, Control, Cleared, Dealt
  <2>8. Runnable'
    BY <1>15 DEF Runnable, Names, RemoveConfig, End, Control, Cleared, Dealt, Hooked
  <2>9. Repaired'
    BY <1>15 DEF Repaired, Names, RemoveConfig, End
  <2>10. NoGhost'
    BY <1>15 DEF NoGhost, RemoveConfig, End, Control, Quiet
  <2> QED
    BY <2>1, <2>2, <2>3, <2>4, <2>5, <2>6, <2>7, <2>8, <2>9, <2>10
<1>16. ASSUME Purge PROVE IInv'
  <2>1. TypeOK'
    BY <1>16 DEF TypeOK, Purge, End
  <2>2. Control'
    BY <1>16 DEF Control, Purge, End
  <2>3. Seen'
    BY <1>16 DEF Seen, Hooked, Turn, Purge, End
  <2>4. Cleared'
    BY <1>16 DEF Cleared, Dealt, Hooked, Purge, End
  <2>5. Placed'
    BY <1>16 DEF Placed, Placing, Dealt, Names, Turn, Purge, End
  <2>6. Quiet'
    BY <1>16 DEF Quiet, Purge, End
  <2>7. Tracked'
    BY <1>16 DEF Tracked, Hooked, Purge, End, Control
  <2>8. Runnable'
    BY <1>16 DEF Runnable, Names, Purge, End, Control, Tracked, Hooked
  <2>9. Repaired'
    BY <1>16 DEF Repaired, Names, Purge, End
  <2>10. NoGhost'
    BY <1>16 DEF NoGhost, Purge, End
  <2> QED
    BY <2>1, <2>2, <2>3, <2>4, <2>5, <2>6, <2>7, <2>8, <2>9, <2>10
<1>17. ASSUME Cut PROVE IInv'
  <2>1. TypeOK'
    BY <1>17 DEF TypeOK, Cut, Fails, End
  <2>2. Control'
    BY <1>17 DEF Control, Cut, Fails, End
  <2>3. Seen'
    BY <1>17 DEF Seen, Hooked, Turn, Cut, Fails, End
  <2>4. Cleared'
    BY <1>17 DEF Cleared, Dealt, Hooked, Cut, Fails, End
  <2>5. Placed'
    BY <1>17 DEF Placed, Placing, Dealt, Names, Turn, Cut, Fails, End
  <2>6. Quiet'
    BY <1>17 DEF Quiet, Cut, Fails, End
  <2>7. Tracked'
    BY <1>17 DEF Tracked, Hooked, Cut, Fails, End
  <2>8. Runnable'
    BY <1>17 DEF Runnable, Names, Cut, Fails, End
  <2>9. Repaired'
    BY <1>17 DEF Repaired, Names, Cut, Fails, End
  <2>10. NoGhost'
    BY <1>17 DEF NoGhost, Cut, Fails, End
  <2> QED
    BY <2>1, <2>2, <2>3, <2>4, <2>5, <2>6, <2>7, <2>8, <2>9, <2>10
<1>18. ASSUME CutBlocks PROVE IInv'
  <2>1. TypeOK'
    BY <1>18 DEF TypeOK, CutBlocks, Fails, End
  <2>2. Control'
    BY <1>18 DEF Control, CutBlocks, Fails, End
  <2>3. Seen'
    BY <1>18 DEF Seen, Hooked, Turn, CutBlocks, Fails, End
  <2>4. Cleared'
    BY <1>18 DEF Cleared, Dealt, Hooked, CutBlocks, Fails, End
  <2>5. Placed'
    BY <1>18 DEF Placed, Placing, Dealt, Names, Turn, CutBlocks, Fails, End
  <2>6. Quiet'
    BY <1>18 DEF Quiet, CutBlocks, Fails, End
  <2>7. Tracked'
    BY <1>18 DEF Tracked, Hooked, CutBlocks, Fails, End
  <2>8. Runnable'
    BY <1>18 DEF Runnable, Names, CutBlocks, Fails, End
  <2>9. Repaired'
    BY <1>18 DEF Repaired, Names, CutBlocks, Fails, End
  <2>10. NoGhost'
    BY <1>18 DEF NoGhost, CutBlocks, Fails, End
  <2> QED
    BY <2>1, <2>2, <2>3, <2>4, <2>5, <2>6, <2>7, <2>8, <2>9, <2>10
<1>19. ASSUME Start PROVE IInv'
  <2>1. TypeOK'
    BY <1>19 DEF TypeOK, Start
  <2>2. Control'
    BY <1>19 DEF Control, Start
  <2>3. Seen'
    BY <1>19 DEF Seen, Hooked, Turn, Start
  <2>4. Cleared'
    BY <1>19 DEF Cleared, Dealt, Hooked, Start
  <2>5. Placed'
    BY <1>19 DEF Placed, Placing, Dealt, Names, Turn, Start
  <2>6. Quiet'
    BY <1>19 DEF Quiet, Start
  <2>7. Tracked'
    BY <1>19 DEF Tracked, Hooked, Start
  <2>8. Runnable'
    BY <1>19 DEF Runnable, Names, Start
  <2>9. Repaired'
    BY <1>19 DEF Repaired, Names, Start
  <2>10. NoGhost'
    BY <1>19 DEF NoGhost, Start
  <2> QED
    BY <2>1, <2>2, <2>3, <2>4, <2>5, <2>6, <2>7, <2>8, <2>9, <2>10
<1>20. ASSUME Stop PROVE IInv'
  <2>1. TypeOK'
    <3>1. /\ up' = FALSE /\ serves' = {}
          /\ UNCHANGED <<settings, script, blocks, config, unit, enabled, job, strayed>>
      BY <1>20 DEF Stop
    <3>2. up' \in BOOLEAN /\ serves' \subseteq Tool
      BY <3>1
    <3> QED
      BY <3>1, <3>2 DEF TypeOK
  <2>2. Control'
    BY <1>20 DEF Control, Stop
  <2>3. Seen'
    BY <1>20 DEF Seen, Hooked, Turn, Stop
  <2>4. Cleared'
    BY <1>20 DEF Cleared, Dealt, Hooked, Stop
  <2>5. Placed'
    BY <1>20 DEF Placed, Placing, Dealt, Names, Turn, Stop
  <2>6. Quiet'
    BY <1>20 DEF Quiet, Stop
  <2>7. Tracked'
    BY <1>20 DEF Tracked, Hooked, Stop
  <2>8. Runnable'
    BY <1>20 DEF Runnable, Names, Stop
  <2>9. Repaired'
    BY <1>20 DEF Repaired, Names, Stop
  <2>10. NoGhost'
    BY <1>20 DEF NoGhost, Stop
  <2> QED
    BY <2>1, <2>2, <2>3, <2>4, <2>5, <2>6, <2>7, <2>8, <2>9, <2>10
<1>21. ASSUME PublishHome PROVE IInv'
  <2>1. TypeOK'
    BY <1>21 DEF TypeOK, PublishHome
  <2>2. Control'
    BY <1>21 DEF Control, PublishHome
  <2>3. Seen'
    BY <1>21 DEF Seen, Hooked, Turn, PublishHome
  <2>4. Cleared'
    BY <1>21 DEF Cleared, Dealt, Hooked, PublishHome
  <2>5. Placed'
    BY <1>21 DEF Placed, Placing, Dealt, Names, Turn, PublishHome
  <2>6. Quiet'
    BY <1>21 DEF Quiet, PublishHome
  <2>7. Tracked'
    BY <1>21 DEF Tracked, Hooked, PublishHome
  <2>8. Runnable'
    BY <1>21 DEF Runnable, Names, PublishHome
  <2>9. Repaired'
    BY <1>21 DEF Repaired, Names, PublishHome
  <2>10. NoGhost'
    BY <1>21 DEF NoGhost, PublishHome
  <2> QED
    BY <2>1, <2>2, <2>3, <2>4, <2>5, <2>6, <2>7, <2>8, <2>9, <2>10
<1>22. CASE UNCHANGED vars
  BY <1>22 DEF TypeOK, Control, Seen, Hooked, Turn, Cleared, Dealt, Placed, Placing, Names, Quiet,
    Tracked, Runnable, Repaired, NoGhost
<1> QED
  BY <1>1, <1>2, <1>3, <1>4, <1>5, <1>6, <1>7, <1>8, <1>9, <1>10, <1>11, <1>12, <1>13, <1>14, <1>15, <1>16, <1>17, <1>18, <1>19, <1>20, <1>21, <1>22 DEF Next

(* It holds at the start. *)
LEMMA InitInvariant == Init => IInv
<1> SUFFICES ASSUME Init PROVE IInv
  OBVIOUS
<1> USE InstallAssumption
<1>1. TypeOK
  BY DEF Init, TypeOK
<1>2. Control /\ Seen /\ Cleared /\ Placed /\ Quiet
  BY DEF Init, Control, Seen, Cleared, Placed, Placing, Quiet
<1>3. Tracked
  BY DEF Init, Tracked
<1>4. \A t \in Tool : t \notin config => ~Names(t)
  BY DEF Init, Names, Hooked
<1>5. Runnable /\ Repaired /\ NoGhost
  BY <1>4 DEF Init, Runnable, Repaired, NoGhost
<1> QED
  BY <1>1, <1>2, <1>3, <1>5 DEF IInv

(* Together: it holds always. *)
LEMMA Invariance == Spec => []IInv
BY InitInvariant, StepInvariant, PTL DEF Spec

(* The settings files, the config, the service and the running command always
   have values of their kinds. *)
THEOREM TypeCorrect == Spec => []TypeOK
BY Invariance, PTL DEF IInv

(* No order of installs, refreshes and uninstalls, each cut short anywhere, loses
   track of a hook in a settings file, but for the exceptions recorded. *)
THEOREM HooksTracked == Spec => []Tracked
BY Invariance, PTL DEF IInv

(* A hook of a tool whose script is missing belongs to a tool that config.json
   names, so that the next command repairs or removes it. *)
THEOREM HooksRunnable == Spec => []Runnable
BY Invariance, PTL DEF IInv

(* install and refresh leave every configured tool in working order, whatever was
   left behind before. *)
THEOREM CommandsRepair == Spec => []Repaired
BY Invariance, PTL DEF IInv

(* A daemon without an installation is there only if the service manager did not
   answer. *)
THEOREM ServiceGoes == Spec => []NoGhost
BY Invariance, PTL DEF IInv

(* What else is in a settings file outlives the commands, but for a file that does
   not parse, one changed meanwhile, and one torn in writing. *)
THEOREM OthersKept == Spec => ForeignKept
<1> DEFINE Kept(t) == /\ Own(t) /\ ~Own(t)' => Excused(t)
                      /\ Rival(t) /\ ~Rival(t)' => Excused(t) \/ ~Removing
<1>1. IInv /\ [Next]_vars => [\A t \in Tool : Kept(t)]_vars
  <2> SUFFICES ASSUME IInv, Next, NEW u \in Tool PROVE Kept(u)
    OBVIOUS
  <2> USE InstallAssumption DEF IInv
  <2>1. CASE settings' = settings
    BY <2>1 DEF Own, Rival
  <2>2. ASSUME NEW t \in Tool, Write(t) PROVE Kept(u)
    <3> SUFFICES ASSUME held = settings[u], ~settings[u].broken, Own(u) \/ Rival(u) PROVE Kept(u)
      BY DEF Excused
    <3>1. held \in Settings /\ held # Missing /\ ~held.broken /\ Missing \notin Settings
      BY DEF TypeOK, Own, Rival, Settings
    <3>2. settings'[u] = settings[u] \/ settings'[u] = Edited(u)
      BY <2>2 DEF Write, TypeOK, Edited
    <3>3. held.user => Edited(u) # Missing /\ Edited(u).user
      <4>1. held.user => /\ Hook(u, held) \in Settings /\ Hook(u, held).user
                         /\ Unhook(u, held) # Missing /\ Unhook(u, held).user
        BY <3>1, EditFacts
      <4> QED
        BY <3>1, <4>1 DEF Edited
    <3>4. held.rival /\ Removing => Edited(u) # Missing /\ Edited(u).rival
      BY <3>1, EditFacts DEF Edited
    <3>5. Own(u) => Own(u)'
      BY <3>2, <3>3 DEF Own
    <3>6. Rival(u) /\ Removing => Rival(u)'
      BY <3>2, <3>4 DEF Rival
    <3> QED
      BY <3>5, <3>6
  <2>3. ASSUME NEW t \in Tool, Tear(t) PROVE Kept(u)
    <3>1. t = "codex" /\ cmd' = "none" /\ \A v \in Tool : v # t => settings'[v] = settings[v]
      BY <2>3 DEF Tear, Fails, End, TypeOK
    <3> QED
      BY <3>1 DEF Own, Rival, Excused
  <2>4. ASSUME NEW t \in Shared, Edit(t) \/ Break(t) PROVE Kept(u)
    BY <2>4 DEF Edit, Break, Excused
  <2>5. CASE \E c \in {"install", "refresh", "uninstall"}, p \in SUBSET Tool : Begin(c, p)
    BY <2>1, <2>5 DEF Begin
  <2>6. CASE \E t \in Tool : Scripts(t) \/ Read(t) \/ Blocks(t) \/ Refuse(t)
    BY <2>1, <2>6 DEF Scripts, Read, Blocks, Refuse
  <2>7. CASE Save \/ WriteUnit \/ Enable \/ Disable \/ RemoveUnit \/ RemoveConfig \/ Purge
    BY <2>1, <2>7 DEF Save, WriteUnit, Enable, Disable, RemoveUnit, RemoveConfig, Purge
  <2>8. CASE Cut \/ CutBlocks \/ Start \/ Stop \/ PublishHome
    BY <2>1, <2>8 DEF Cut, CutBlocks, Start, Stop, PublishHome
  <2> QED
    BY <2>2, <2>3, <2>4, <2>5, <2>6, <2>7, <2>8 DEF Next
<1> QED
  BY <1>1, Invariance, PTL DEF Spec, ForeignKept
=============================================================================
