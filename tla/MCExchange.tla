------------------------------ MODULE MCExchange ------------------------------
(***************************************************************************)
(* Exchange for TLC: a plain client and an intercepted one, one host with  *)
(* two ports and the urls of two pages.                                    *)
(***************************************************************************)
EXTENDS Exchange, TLC

CONSTANTS plain, ssl

Do(methods, ports, urls) ==
  [method : methods, host : {"h"}, port : ports, url : urls]

MCClients == {plain, ssl}
MCIntercepted == {ssl}
MCPatient == {ssl}

\* What the passing run asks for.  The plain client asks two ports for one
\* url in origin form, which has no port in it and is also what the
\* intercepted client asks a third port for, and one of them for the url in
\* absolute form.
MCAsks ==
  plain :> (Do({"GET", "POST"}, {80, 81}, {"/a"})
              \cup Do({"GET"}, {81}, {"http://h:81/a"}))
    @@ ssl :> Do({"GET"}, {443}, {"/a", "/b"})

\* Both methods on the intercepted connection.
MCAsksAny ==
  plain :> {} @@ ssl :> Do({"GET", "POST"}, {443}, {"/a"})
=============================================================================
