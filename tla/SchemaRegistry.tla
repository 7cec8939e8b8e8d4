--------------------------- MODULE SchemaRegistry ---------------------------
(***************************************************************************)
(* What schema registration promises, said without workers, transactions or  *)
(* version numbers: the registry is a list of different headers that only    *)
(* grows at its end.  A run publishes its files' results and the headers     *)
(* they were the first to carry in one step.                                 *)
(***************************************************************************)
EXTENDS Sequences, SequencesExt, FiniteSets, Naturals

CONSTANTS
  Files, None,
  Carries     \* [Files -> headers]

VARIABLES
  registry,   \* the registered headers, in the order of their versions
  results     \* [Files -> None, 0 (rejected) or a version]

Init == registry = <<>> /\ results = [f \in Files |-> None]

(* The files a step publishes.                                               *)
Published == {f \in Files : results[f] = None /\ results'[f] # None}

Publish ==
  /\ Published # {}
  /\ IsPrefix(registry, registry')
  /\ \A i, j \in DOMAIN registry' : registry'[i] = registry'[j] => i = j
  /\ \A f \in Files \ Published : results'[f] = results[f]
  /\ \A f \in Published :
       results'[f] # 0 => results'[f] \in DOMAIN registry' /\ registry'[results'[f]] = Carries[f]
  /\ \A i \in DOMAIN registry' \ DOMAIN registry : \E f \in Published : results'[f] = i

Spec == Init /\ [][Publish]_<<registry, results>>
=============================================================================
