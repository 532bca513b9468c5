--------------------------- MODULE MCRequestPool ---------------------------
(***************************************************************************)
(* RequestPool with two streams, a write and a read, and half as many      *)
(* connections and threads as requests.                                    *)
(***************************************************************************)
EXTENDS RequestPool

CONSTANTS s1, s2, w, r

MCKind == [q \in Requests |-> CASE q \in {s1, s2} -> "stream" [] q = w -> "write" [] OTHER -> "read"]
=============================================================================
