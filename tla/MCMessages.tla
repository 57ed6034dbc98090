----------------------------- MODULE MCMessages -----------------------------
(***************************************************************************)
(* A small instance of Messages: one user in two tabs.  The limiter of his *)
(* address is the tighter one, as it is when others share the address.     *)
(***************************************************************************)
EXTENDS Messages, TLC

CONSTANTS userKey, addressKey

MCDrafts == {[kind |-> k, party |-> TRUE] : k \in Kinds}
              \cup {[kind |-> "text", party |-> FALSE]}
MCUserOf == [c \in Sender |-> userKey]
MCAddressOf == [c \in Sender |-> addressKey]

\* Two in a row and one per tick for the user, one every two ticks for the address.
MCBurst == (userKey :> 2 @@ addressKey :> 1)
MCPeriod == (userKey :> 1 @@ addressKey :> 2)

\* Message ids and the two tabs are interchangeable.
Symmetry == Permutations(MessageId) \cup Permutations(Sender)
=============================================================================
