------------------------------ MODULE AtomicMap ------------------------------
(***************************************************************************)
(* What a SafeHashMap promises to the threads that share it: every call    *)
(* takes effect at one instant between its invocation and its return, on a *)
(* plain mapping from keys to values.                                      *)
(***************************************************************************)
EXTENDS FiniteSets

CONSTANTS Thread, Key, Value, NULL

Calls ==
  [op : {"insert"}, key : Key, value : Value \cup {NULL}]
    \cup [op : {"remove"}, key : Key]
    \cup [op : {"size", "contents"}]

NoCall == [op |-> "none"]

VARIABLES
  mapping,   \* the keys present and their values
  pending,   \* the call each thread has made
  response   \* <<>> before the call has taken effect, then <<its result>>

vars == <<mapping, pending, response>>

Init ==
  /\ mapping = [k \in {} |-> NULL]
  /\ pending = [t \in Thread |-> NoCall]
  /\ response = [t \in Thread |-> <<>>]

Invoke(t, c) ==
  /\ pending[t] = NoCall
  /\ pending' = [pending EXCEPT ![t] = c]
  /\ UNCHANGED <<mapping, response>>

Answer(t, r) ==
  /\ response[t] = <<>>
  /\ response' = [response EXCEPT ![t] = <<r>>]
  /\ UNCHANGED pending

Insert(t) ==
  /\ pending[t].op = "insert"
  /\ LET k == pending[t].key
         v == pending[t].value
     IN  \/ /\ v # NULL /\ k \notin DOMAIN mapping
            /\ mapping' = [j \in DOMAIN mapping \cup {k} |->
                             IF j = k THEN v ELSE mapping[j]]
            /\ Answer(t, TRUE)
         \/ /\ v = NULL \/ k \in DOMAIN mapping
            /\ Answer(t, FALSE)
            /\ UNCHANGED mapping

Remove(t) ==
  /\ pending[t].op = "remove"
  /\ LET k == pending[t].key
     IN  \/ /\ k \in DOMAIN mapping
            /\ mapping' = [j \in DOMAIN mapping \ {k} |-> mapping[j]]
            /\ Answer(t, TRUE)
         \/ /\ k \notin DOMAIN mapping
            /\ Answer(t, FALSE)
            /\ UNCHANGED mapping

Size(t) ==
  /\ pending[t].op = "size"
  /\ Answer(t, Cardinality(DOMAIN mapping))
  /\ UNCHANGED mapping

Contents(t) ==
  /\ pending[t].op = "contents"
  /\ Answer(t, DOMAIN mapping)
  /\ UNCHANGED mapping

Return(t) ==
  /\ response[t] # <<>>
  /\ response' = [response EXCEPT ![t] = <<>>]
  /\ pending' = [pending EXCEPT ![t] = NoCall]
  /\ UNCHANGED mapping

Next == \E t \in Thread :
  \/ \E c \in Calls : Invoke(t, c)
  \/ Insert(t) \/ Remove(t) \/ Size(t) \/ Contents(t)
  \/ Return(t)

Spec == Init /\ [][Next]_vars
=============================================================================
