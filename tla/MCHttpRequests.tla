--------------------------- MODULE MCHttpRequests ---------------------------
(***************************************************************************)
(* One file, two providers of which one runs the proxy, two servers of     *)
(* which one runs the API, and two requests of a mix.                      *)
(***************************************************************************)
EXTENDS HttpRequests, TLC

CONSTANTS i, j, file1, me, p, S, T

\* Gets of the proxy; gets of the API among one other kind of its requests.
ProxyGets == {{<<"peer", "get">>}}
ApiMixes  == {{<<"api", "get">>, <<"api", kind>>} : kind \in Kind}

\* Ids are only compared for equality, and so are the servers of a run without
\* requests of the API.
Symmetry == Permutations(Ids) \cup Permutations(Servers)
=============================================================================
