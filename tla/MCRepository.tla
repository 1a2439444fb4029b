---------------------------- MODULE MCRepository ----------------------------
(***************************************************************************)
(* Repositories and values for TLC: the catalogue of one element, the      *)
(* installing of an application and the library it requires, in two        *)
(* versions each, and of an element whose dependencies clash, and two      *)
(* values of one variable beside three profiles.                           *)
(* Each behaviour exercises one of the three.                              *)
(***************************************************************************)
EXTENDS RepoElements, Catalogue, ValuesStore

VARIABLE part       \* which of the three this behaviour is about

mcVars == <<repoVars, catalogueVars, valuesVars, part>>

Element(n, v) == [name |-> n, version |-> v]

MCKeys == {Element(n, v) : n \in {"app", "lib"}, v \in 1 .. 2} \union {Element("odd", 1)}

\* The second version of the application needs the second one of the library. The odd one
\* needs both it and the first version of the library.
MCRequires ==
    [k \in MCKeys |->
        CASE k.name = "app" -> {[name |-> "lib", from |-> k.version, to |-> 3]}
          [] k.name = "odd" -> {[name |-> "app", from |-> 2, to |-> 3],
                                [name |-> "lib", from |-> 1, to |-> 2]}
          [] OTHER -> {}]

MCInit ==
    /\ part \in {"elements", "catalogue", "values"}
    /\ RepoElementsInit /\ CatalogueInit /\ ValuesInit
    /\ IF part = "catalogue" THEN Cardinality(source.offered) \in {1, 3}
                             ELSE source.offered = {}

MCNext ==
    /\ UNCHANGED part
    /\ \/ part = "elements" /\ RepoElementsNext /\ UNCHANGED <<catalogueVars, valuesVars>>
       \/ part = "catalogue" /\ CatalogueNext /\ UNCHANGED <<repoVars, valuesVars>>
       \/ part = "values" /\ ValuesNext /\ UNCHANGED <<repoVars, catalogueVars>>

MCFairness ==
    \/ part = "elements" /\ RepoElementsFairness
    \/ part = "catalogue" /\ CatalogueFairness
    \/ part = "values" /\ ValuesFairness

MCSpec == MCInit /\ [][MCNext]_mcVars /\ MCFairness

\* VariablesSettle, of the behaviours that are about values: in the end a variable shows the
\* value that is selected, or the latest, and the one of the active profile (set_value).
ValuesSettle == part = "values" => VariablesSettle
=============================================================================
