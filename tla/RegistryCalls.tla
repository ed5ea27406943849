---------------------------- MODULE RegistryCalls ----------------------------
(***************************************************************************)
(* What a caller of the schema registry sees of a lookup: it asks for a    *)
(* key and is answered, at one instant, with what AtomicRegistry gives for *)
(* that key, while schemas are inserted at any time.                       *)
(***************************************************************************)
EXTENDS AtomicRegistry

CONSTANT Callers  \* the threads that look schemas up

VARIABLE call     \* per caller: the lookup under way and its answer

Asked(k) == [state |-> "asked", key |-> k]
AnsweredWith(k, s) == [state |-> "answered", key |-> k, schema |-> s]
NoCall == [state |-> "idle"]

CallsInit == RegistryInit /\ call = [c \in Callers |-> NoCall]

Ask(c, k) ==
  /\ call[c] = NoCall
  /\ call' = [call EXCEPT ![c] = Asked(k)]
  /\ UNCHANGED dynamic

Answer(c) ==
  /\ call[c].state = "asked"
  /\ call' = [call EXCEPT ![c] = AnsweredWith(@.key, Lookup(@.key))]
  /\ UNCHANGED dynamic

Return(c) ==
  /\ call[c].state = "answered"
  /\ call' = [call EXCEPT ![c] = NoCall]
  /\ UNCHANGED dynamic

Insert(k, s) == InsertDynamic(k, s) /\ UNCHANGED call

CallsNext ==
  \/ \E c \in Callers : (\E k \in Keys : Ask(c, k)) \/ Answer(c) \/ Return(c)
  \/ \E k \in Keys, s \in Schemas : Insert(k, s)

CallsSpec == CallsInit /\ [][CallsNext]_<<dynamic, call>>
==============================================================================
