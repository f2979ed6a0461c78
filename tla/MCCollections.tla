---------------------------- MODULE MCCollections ----------------------------
(***************************************************************************)
(* Finite instances of Collections.  Two retries stand for the five of     *)
(* DefaultSchedule: a first, a last and an exhausted position.             *)
(***************************************************************************)
EXTENDS Collections

MCSchedule == <<1, 3>>
MCOneRetry == <<2>>

\* One invoice may be declined up to its write-off, the others once.
CONSTANT WrittenOff
MCDeclines == [i \in Invoices |-> IF i = WrittenOff THEN Retries + 1 ELSE 1]
=============================================================================
