------------------------------ MODULE MCWebev ------------------------------
(***************************************************************************)
(* Webev with up to two calls of one process and another client's request. *)
(***************************************************************************)
EXTENDS Webev

CONSTANT x

Requests == {1, 2, x}
KindOf == [r \in Requests |-> CASE r = 1 -> "log" [] r = 2 -> "badserver" [] OTHER -> "options"]

Call(hook, reuse) == [hook |-> hook, reuse |-> reuse]
Hooked == Call(TRUE, FALSE)
Detached == Call(FALSE, FALSE)

\* WebMain's one call, and what other programs may do with the library.
AllScripts == {<<Detached>>, <<Hooked, Call(TRUE, TRUE)>>,
               <<Detached, Detached>>}
OneHooked == {<<Hooked>>}

=============================================================================
