-------------------------- MODULE MCElementManager --------------------------
(* TLC instances of ElementManager: a provider with versions and an element *)
(* that imports from it and requires it.  The run looks at two stories at   *)
(* once, and `part' says which one a behaviour tells.                       *)
EXTENDS ElementManager, TLC

CONSTANTS w1, w2, p, c, p1, p2, p3, c1, node, spare, config,
          Parts   \* the stories of a run

VARIABLE part

Names  == (p1 :> p) @@ (p2 :> p) @@ (p3 :> p) @@ (c1 :> c)
Owners == (node :> p) @@ (spare :> p) @@ (config :> c)

(* The kind of config is one that p provides, and config links to node. *)
Providers == [Owners EXCEPT ![config] = p]
Links == [m \in Manifests |-> [r \in Resources |->
            IF m = c1 /\ r = config THEN node ELSE None]]

(* p2 adds a resource to those of p1; p3 replaces the resource of p1, and   *)
(* its export with it.                                                      *)
AllDeclares == (p1 :> {node}) @@ (p2 :> {node, spare}) @@ (p3 :> {spare})
               @@ (c1 :> {config})
AllExports  == (p1 :> {node}) @@ (p2 :> {node}) @@ (p3 :> {spare}) @@ (c1 :> {})
AllImports  == (p1 :> {}) @@ (p2 :> {}) @@ (p3 :> {}) @@ (c1 :> {node})
AllRequires == (p1 :> {}) @@ (p2 :> {}) @@ (p3 :> {}) @@ (c1 :> {p1, p2, p3})

(* "grow": one worker, an upgrade that keeps what others import, and facts  *)
(* that change.  "replace": two workers, an upgrade that does not, and      *)
(* nothing is linked to that has changed.                                   *)
WorkersOf(story) == IF story = "grow" THEN {w1} ELSE Workers
ManifestsOf(story) == IF story = "grow" THEN {p1, p2, c1} ELSE {p1, p3, c1}

WithinPart ==
    /\ \A w \in Workers : req[w] # None =>
          w \in WorkersOf(part) /\ req[w].m \in ManifestsOf(part)
    /\ part = "grow" => requests <= 3
    /\ part = "replace" => \A r \in Resources : fact[r] = 0

MCInit == Init /\ part \in Parts
MCNext == Next /\ UNCHANGED part /\ WithinPart'
MCSpec == MCInit /\ [][MCNext]_<<vars, part>>
MCFairSpec == MCSpec /\ Fairness

(* Converges, in the story where manifests keep what others import from     *)
(* them: a dangling import stops the manager for good.                      *)
ElementsConverge == part = "grow" => Converges
=============================================================================
