---------------------------- MODULE MCSections -----------------------------
(***************************************************************************)
(* A small instance of Sections for TLC.                                   *)
(***************************************************************************)
EXTENDS Sections, TLC

CONSTANTS s1, s2, f1, f2

Says(role, form, text, calls, paths) ==
  [role |-> role, form |-> form, text |-> text, calls |-> calls, paths |-> paths]

(* A prompt; a trifle of two lines; an answer with code between fences; one
   whose fence is not closed; a turn that only calls tools. *)
MCRecord == {
  Says("user", "plain", <<"plan?">>, FALSE, {}),
  Says("user", "plain", <<"ok", "go">>, FALSE, {}),
  Says("assistant", "text", <<"a? b?", "fence", "code", "fence", "done">>, TRUE, {f2}),
  Says("assistant", "text", <<"fence", "b? again">>, FALSE, {}),
  Says("assistant", "tools", <<"again">>, TRUE, {f1}) }

MCLine == {"plan?", "ok", "go", "fence", "code", "a? b?", "b? again", "again", "done"}

MCBrief == {<<"ok">>, <<"go">>, <<"ok", "go">>}

MCAsked == [l \in MCLine |->
  CASE l = "plan?" -> <<"plan?">>
    [] l = "a? b?" -> <<"a?", "b?">>
    [] l = "b? again" -> <<"b?">>
    [] OTHER -> << >>]

MCTaskCut == [l \in MCLine |-> IF l = "plan?" THEN "plan" ELSE l]

MCQuestionCut == [q \in {"plan?", "a?", "b?"} |-> q]

(* The first two records of a session may carry the same timestamp. *)
MCStamp == [s \in Session |-> [i \in 1..MaxRecords |-> IF i <= 2 THEN 1 ELSE i]]

(* Bounds: s2 is of one record, a prompt or an answer. *)
MCLimit == s1 :> MaxRecords @@ s2 :> 1
Bounds  == \A i \in DOMAIN said[s2] :
             said[s2][i].text \in {<<"plan?">>, <<"fence", "b? again">>}
=============================================================================
