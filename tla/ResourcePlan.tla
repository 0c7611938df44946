----------------------------- MODULE ResourcePlan -----------------------------
(***************************************************************************)
(* Plan of internal/resource/plan.go: the difference between the resources *)
(* that exist and those the configuration asks for, cut into phases.       *)
(*                                                                         *)
(* A resource stands for its key in the actual and desired maps; statuses  *)
(* are the sets of keys whose Status() has Exists and the flag.  idOf and  *)
(* deps are functions on keys: Identifier() and Dependencies().            *)
(***************************************************************************)
EXTENDS Sequences, Layering

Deletes(actual, desired, recreate) ==
  (actual \ desired) \union (actual \intersect desired \intersect recreate)

Updates(actual, desired, recreate, update) ==
  ((actual \intersect desired) \ recreate) \intersect update

\* Mutation: what is recreated is deleted only.
Creates_MissingOnly(actual, desired, recreate) == desired \ actual

Creates(actual, desired, recreate) ==
  (desired \ actual) \union (actual \intersect desired \intersect recreate)

\* topoSort's eventSet: of several events with one Identifier() the last one
\* of a slice in map order stays, so any of them may.
Kept(events, idOf) ==
  {W \in SUBSET events :
     /\ \A k \in events : \E w \in W : idOf[w] = idOf[k]
     /\ \A v \in W, w \in W : idOf[v] = idOf[w] => v = w}

\* Which event needs which: edges from the dependency to the dependent.
Edges(events, idOf, deps) ==
  UNION {LET needed == deps[k]
         IN  {<<j, k>> : j \in {i \in events : idOf[i] \in needed}} : k \in events}

\* Mutation: deletes run in the order of creates and creates in that of deletes.
Phases_Reversed(action, events, reverse, idOf, deps) ==
  LET Needs  == Edges(events, idOf, deps)
      Before == IF reverse THEN Needs ELSE {<<e[2], e[1]>> : e \in Needs}
      layers == Layers(events, Before)
  IN  [n \in DOMAIN layers |-> {<<action, k>> : k \in layers[n]}]

\* topoSort of events with different identifiers, each tagged with its action.
Phases(action, events, reverse, idOf, deps) ==
  LET Needs  == Edges(events, idOf, deps)
      Before == IF reverse THEN {<<e[2], e[1]>> : e \in Needs} ELSE Needs
      layers == Layers(events, Before)
  IN  [n \in DOMAIN layers |-> {<<action, k>> : k \in layers[n]}]

\* The plans Plan may return.  Only deletes can share an identifier: the
\* keys of the desired map are the identifiers of its resources.
Plans(actual, desired, recreate, update, idOf, deps) ==
  {Phases("delete", W, TRUE, idOf, deps)
     \o Phases("update", Updates(actual, desired, recreate, update),
               FALSE, idOf, deps)
     \o Phases("create", Creates(actual, desired, recreate),
               FALSE, idOf, deps) :
   W \in Kept(Deletes(actual, desired, recreate), idOf)}
=============================================================================
