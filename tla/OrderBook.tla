----------------------------- MODULE OrderBook ------------------------------
(***************************************************************************)
(* What the order service promises, without handlers, locks or             *)
(* transactions: a book of orders in which a placement is one atomic step  *)
(* that finds the collectible free and the idempotency key unused, and in  *)
(* which an order moves along the state machine of the README.             *)
(***************************************************************************)
CONSTANTS OrderId, Requests, NoRequest

VARIABLES status, placed

bookVars == <<status, placed>>

States == {"pending", "confirmed", "processing", "completed", "cancelled"}
Taken(o) == status[o] \in {"pending", "confirmed", "processing"}

\* pending -> confirmed -> processing -> completed, and cancelled from the
\* first two.
Arrows == {<<"pending", "confirmed">>, <<"pending", "cancelled">>,
           <<"confirmed", "processing">>, <<"confirmed", "cancelled">>,
           <<"processing", "completed">>}

Init ==
    /\ status = [o \in OrderId |-> "absent"]
    /\ placed = [o \in OrderId |-> NoRequest]

Place(o, r) ==
    /\ status[o] = "absent"
    /\ \A n \in OrderId : Taken(n) => placed[n].item # r.item
    /\ \A n \in OrderId :
         status[n] # "absent" => <<placed[n].buyer, placed[n].key>> # <<r.buyer, r.key>>
    /\ status' = [status EXCEPT ![o] = "pending"]
    /\ placed' = [placed EXCEPT ![o] = r]

Move(o, to) ==
    /\ <<status[o], to>> \in Arrows
    /\ status' = [status EXCEPT ![o] = to]
    /\ UNCHANGED placed

Next ==
    \E o \in OrderId :
        \/ \E r \in Requests : Place(o, r)
        \/ \E to \in States : Move(o, to)

Spec == Init /\ [][Next]_bookVars

\* The book never holds two live orders for one collectible, nor two orders
\* with one key of one buyer.
BookInv ==
    /\ status \in [OrderId -> States \cup {"absent"}]
    /\ placed \in [OrderId -> Requests \cup {NoRequest}]
    /\ \A o \in OrderId : status[o] # "absent" => placed[o] \in Requests
    /\ \A o, n \in OrderId :
         Taken(o) /\ Taken(n) /\ placed[o].item = placed[n].item => o = n
    /\ \A o, n \in OrderId :
         /\ status[o] # "absent"
         /\ status[n] # "absent"
         /\ <<placed[o].buyer, placed[o].key>> = <<placed[n].buyer, placed[n].key>>
         => o = n
=============================================================================
