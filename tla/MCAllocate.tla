----------------------------- MODULE MCAllocate -----------------------------
(* Small instances of Allocate.                                             *)
EXTENDS Allocate

CONSTANTS p1, p2, p3, p4, d1, d2

MCInitNames == [p \in Pods |-> IF p = p1 THEN <<"init">> ELSE <<>>]
MCNames == [p \in Pods |-> IF p = p1 THEN <<"main", "side">>
                           ELSE IF p = p2 THEN <<"main", "side">> ELSE <<"main">>]

(* p1: an init container and the second regular one, nothing in between;   *)
(* p2: two regular containers; p3: the annotation has two devices for a    *)
(* container that asks for one; p4: one container, unreadable annotations. *)
MCAssigned ==
  [p \in Pods |-> CASE p = p1 -> <<<<d1>>, <<>>, <<d2>>>>
                    [] p = p2 -> <<<<d2, d1>>, <<d1>>, <<>>>>
                    [] p = p3 -> <<<<d1, d2>>, <<>>, <<>>>>
                    [] OTHER  -> <<<<d2>>, <<>>, <<>>>>]
MCAsked ==
  [p \in Pods |-> CASE p = p1 -> <<1, 0, 1>>
                    [] p = p2 -> <<2, 1, 0>>
                    [] OTHER  -> <<1, 0, 0>>]

AllKnown == {{d1, d2}}
SomeUnknown == {{d1, d2}, {d1}}
=============================================================================
