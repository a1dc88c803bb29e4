------------------------------- MODULE Router -------------------------------
(***************************************************************************)
(* The routes of one server (lib/router.js): a sequence of records         *)
(* [method, path, fn].  A path is a sequence of pieces, so that "starts    *)
(* with" is IsPrefix.                                                      *)
(***************************************************************************)
EXTENDS Integers, Sequences, SequencesExt

NoRoute == [method |-> "", path |-> <<>>, fn |-> "none"]

IsPathUnique(routes, entry) ==
  \A i \in DOMAIN routes :
    routes[i].method = entry.method => routes[i].path # entry.path

(* add; an error is thrown for a path that a route of the method has, and  *)
(* the server does not start: [ok |-> FALSE].                              *)
Add(router, entry) ==
  IF IsPathUnique(router.routes, entry)
    THEN [router EXCEPT !.routes = Append(@, entry)]
    ELSE [router EXCEPT !.ok = FALSE]

(* Of the routes of the method whose path the URL starts with, the first.  *)
Match(routes, method, url) ==
  LET matching(entry) == entry.method = method /\ IsPrefix(entry.path, url)
      i == SelectInSeq(routes, matching)
  IN IF i = 0 THEN NoRoute ELSE routes[i]
=============================================================================
