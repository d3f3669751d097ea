----------------------------- MODULE ConfigFile -----------------------------
(***************************************************************************)
(* What the config promises to those who edit it and to the collector that *)
(* runs on it.  An edit changes one setting of the file at once and leaves *)
(* the others as they are.  The running config is always, whole, a         *)
(* document that the file was; an operator who edits through the collector *)
(* is answered when his edit, or a later document, has become the running  *)
(* config, unless the file no longer loads or the collector ends.  It is   *)
(* not promised that the running config never goes back to an older        *)
(* document: two operators are answered in any order.                      *)
(***************************************************************************)
EXTENDS Naturals, Sequences

CONSTANTS Settings, Values

VARIABLES file,
          past,  \* the documents the file has been, the present one last
          live,  \* the running config
          due    \* places in past of edits whose operator waits for an answer

fileVars == <<file, past, live, due>>

Init == /\ file \in [Settings -> Values]
        /\ past = <<file>> /\ live = file /\ due = {}

Edit(s, v) == /\ file' = [file EXCEPT ![s] = v]
              /\ past' = Append(past, file')
              /\ due' \in {due, due \cup {Len(past')}}
              /\ UNCHANGED live

Publish(n) == /\ \E m \in n..Len(past) : live' = past[m]
              /\ due' = due \ {n}
              /\ UNCHANGED <<file, past>>

Abandon(n) == due' = due \ {n} /\ UNCHANGED <<file, past, live>>

Restart == live' = file /\ due' = {} /\ UNCHANGED <<file, past>>

Next == \/ \E s \in Settings, v \in Values : Edit(s, v)
        \/ \E n \in due : Publish(n) \/ Abandon(n)
        \/ Restart

FileSpec == Init /\ [][Next]_fileVars
=============================================================================
