--------------------------- MODULE AtomicInstall ---------------------------
(***************************************************************************)
(* What install::transaction promises its callers: an install or a removal *)
(* of one package is one indivisible change of the install root and of the *)
(* databases, or no change at all.                                         *)
(***************************************************************************)
CONSTANTS Package, File, Payload, None, Foreign
VARIABLES root, packages, owners

Init ==
    /\ root \in [File -> {None, Foreign}]
    /\ packages = [p \in Package |-> None]
    /\ owners = [f \in File |-> None]

\* All files of the payload appear, none of them owned by another package.
Install(p, files) ==
    /\ packages[p] = None
    /\ \A f \in files : owners[f] = None
    /\ root' = [f \in File |-> IF f \in files THEN p ELSE root[f]]
    /\ owners' = [f \in File |-> IF f \in files THEN p ELSE owners[f]]
    /\ packages' = [packages EXCEPT ![p] = files]

\* Exactly the files p owns disappear.
Remove(p) ==
    /\ packages[p] # None
    /\ root' = [f \in File |-> IF owners[f] = p THEN None ELSE root[f]]
    /\ owners' = [f \in File |-> IF owners[f] = p THEN None ELSE owners[f]]
    /\ packages' = [packages EXCEPT ![p] = None]

Next == \E p \in Package : Remove(p) \/ \E files \in Payload[p] : Install(p, files)

Spec == Init /\ [][Next]_<<root, packages, owners>>
=============================================================================
