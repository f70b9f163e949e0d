------------------------------ MODULE MCTunnel ------------------------------
(* One stream.  The race with a fixed upstream is won by a raw stream or by a *)
(* short tunnel session; longer sessions run on a server without upstream.    *)
EXTENDS Tunnel

UsesSmall == {u \in AllUses : u.fixed = (u.kind = "raw" \/ (u.kind = "ws" /\ u.target \in {"refused", "bad"}))}
=============================================================================
