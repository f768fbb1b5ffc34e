------------------------------ MODULE PartLife ------------------------------
(***************************************************************************)
(* What the store promises about one part of a file, a Telegram message:   *)
(*                                                                         *)
(*    none --> loose --> staged --> owned --> doomed --> gone              *)
(*                                                                         *)
(* A message is sent (loose), recorded as a part of an upload (staged) and *)
(* adopted by a file (owned).  It leaves the channel only when nothing     *)
(* needs it: as an orphan (loose), after its upload outlived the retention *)
(* (expired) or after its file was deleted (doomed).  A part that a file   *)
(* owns, or that an upload in progress counts on, never disappears, and a  *)
(* message that is gone, or was given up, never comes back.                *)
(***************************************************************************)
CONSTANT Part
VARIABLE life

States == {"none", "loose", "staged", "expired", "owned", "doomed", "gone"}

Init == life = [p \in Part |-> "none"]

\* What may happen to one message at a time.
Send   == {<<"none", "loose">>}
Stage  == {<<"loose", "staged">>}
Expire == {<<"staged", "expired">>}

\* Forget an upload, a file that another one replaces, or deleted files whose
\* messages could not be deleted.
Forget == {"staged", "expired", "owned", "doomed"} \X {"loose"}

\* A file takes all parts of an upload, or the messages copied for it, and
\* lets go of the parts it had.
Adopt == ({"loose", "staged"} \X {"owned"}) \cup {<<"owned", "loose">>}

\* The same for a file that was deleted meanwhile.
Bury == {<<"staged", "doomed">>, <<"doomed", "loose">>}

Doom == {<<"owned", "doomed">>}
Reap == {"loose", "expired", "doomed"} \X {"gone"}

Next ==
  LET changed == {p \in Part : life'[p] # life[p]}
      moves   == {<<life[p], life'[p]>> : p \in changed} IN
  /\ life' \in [Part -> States]
  /\ \/ \E move \in {Forget, Adopt, Bury, Doom, Reap} : moves \subseteq move
     \/ \E move \in {Send, Stage, Expire}, p \in Part : moves \subseteq move /\ changed = {p}

Spec == Init /\ [][Next]_life
=============================================================================
