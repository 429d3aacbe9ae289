------------------------------- MODULE FileMap -------------------------------
(***************************************************************************)
(* What a vault promises its users, whatever chunks and manifests it is    *)
(* made of: a map from paths to whole files.  One step gives one path the  *)
(* complete content that some request asked for, or deletes it; nothing    *)
(* else, and in particular no garbage collection and no crash, is visible. *)
(***************************************************************************)
CONSTANTS Path,     \* virtual paths
          Contents, \* what a file can hold
          Absent    \* what an absent path holds

VARIABLES file,     \* the content of each path
          asked     \* the contents that unfinished requests want at each path

vars == <<file, asked>>

Init == /\ file = [q \in Path |-> Absent]
        /\ asked = [q \in Path |-> {}]

\* A request names what it wants at some paths, or gives up, or is done.
Request == /\ asked' \in [Path -> SUBSET (Contents \cup {Absent})]
           /\ UNCHANGED file

\* One path takes the whole content a request wants there.
Write(q) == \E x \in asked[q] :
                /\ file' = [file EXCEPT ![q] = x]
                /\ \E S \in SUBSET asked[q] : asked' = [asked EXCEPT ![q] = S]

Next == Request \/ \E q \in Path : Write(q)

Spec == Init /\ [][Next]_vars
=============================================================================
