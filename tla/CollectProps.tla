------------------------------ MODULE CollectProps ------------------------------
(***************************************************************************)
(* The properties of CollectThenTry.                                       *)
(***************************************************************************)
EXTENDS CollectThenTry

\* c lists the elements up to n that are Ok, each once and in their order.
Lists(c, n) ==
  /\ {c[k] : k \in DOMAIN c} = {i \in 1 .. n : elements[i] = "ok"}
  /\ \A j, k \in DOMAIN c : j < k => c[j] < c[k]

\* e is the first error among the elements up to n.
IsFirstError(e, n) ==
  \E i \in 1 .. n :
    /\ e = Error(i) /\ elements[i] = "err"
    /\ \A j \in 1 .. i - 1 : elements[j] = "ok"

\* However often the future goes to sleep on its way, nothing of what the stream
\* has yielded is forgotten, doubled or reordered, and an Ok is the whole stream.
CollectedInOrder ==
  /\ outcome = Running => Lists(items, taken)
  /\ outcome[1] = "ok" => /\ Lists(outcome[2], Len(elements))
                          /\ \A i \in DOMAIN elements : elements[i] = "ok"

\* "If more than one error is produced, this adapter will return the first error
\* encountered" (try_stream.rs:90), whatever follows it.
FirstErrorReturned ==
  /\ outcome = Running => first_error = NoError \/ IsFirstError(first_error, taken)
  /\ outcome \in Errors => IsFirstError(outcome, Len(elements))

\* Whenever the task sleeps, the stream is going to wake it.
WakeupComing ==
  outcome = Running /\ pc = "asleep" /\ ~woken => ~streamReady /\ streamWaker

Abstract == INSTANCE ThenTry WITH
  left    <- taken + 1 .. Len(elements),
  errors  <- {Error(i) : i \in {j \in 1 .. taken : elements[j] = "err"}},
  Ok      <- <<"ok">>,
  outcome <- IF outcome[1] = "ok" THEN <<"ok">> ELSE outcome

\* The promise of a then_try adapter: the exit comes after the last element,
\* with an error if there was one.
ImplementsThenTry == Abstract!Spec

=============================================================================
