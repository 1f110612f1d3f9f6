--------------------------- MODULE MCMethodCache ---------------------------
(* Two methods, the name of one beginning with that of the other, and a    *)
(* hashStrategy of "simple": the keys are "get$" and "getAll$S1:a".        *)
EXTENDS MethodCache, TLC

CONSTANTS get, getAll, k1, k2

MethodOf == k1 :> get @@ k2 :> getAll

BeginsOf == get :> {k1, k2} @@ getAll :> {k2}

SweptOf == k1 :> {k1, k2} @@ k2 :> {k2}
=============================================================================
