---------------------------- MODULE MCAutoTriage ----------------------------
(* AutoTriage for TLC.  A scope bounds a family of behaviours; which path,   *)
(* content or address comes first is a matter of names.                     *)
EXTENDS AutoTriage, TLC

MCDocuments == {{f} \X Kinds : f \in Functions}

One(S) == {CHOOSE x \in S : TRUE}

\* At first every file is a copy of one content; the user has named the functions
\* of every content but New.
New == CHOOSE v \in Versions : TRUE
Known == CHOOSE v \in Versions \ {New} : TRUE

MCScope(v, bs, fs, c, w, r, l) ==
    [content |-> [b \in Binaries |-> v],
     notes |-> [u \in Versions |-> [s \in Slots |->
                  IF u # New /\ s[2] = "rename" THEN "typed" ELSE "none"]],
     binaries |-> bs, functions |-> fs,
     command |-> c, rewrite |-> w, run |-> r, reload |-> l]

\* Two runs on two binaries and a reload; two commands around a run; a command
\* and a run while the file is rewritten and the window reloaded; two functions
\* and a command, or a rewrite and a reload.
MCScopes ==
    {MCScope(Known, Binaries, One(Functions), 0, 0, 2, 1),
     MCScope(New, One(Binaries), One(Functions), 2, 0, 1, 0),
     MCScope(New, One(Binaries), One(Functions), 1, 1, 1, 1),
     MCScope(New, One(Binaries), Functions, 1, 0, 1, 0),
     MCScope(New, One(Binaries), Functions, 0, 1, 1, 1)}
=============================================================================
