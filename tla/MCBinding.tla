----------------------------- MODULE MCBinding -----------------------------
(***************************************************************************)
(* Instances of Binding for TLC: a tool that two servers expose, routed    *)
(* through a recipe that calls another.                                    *)
(***************************************************************************)
EXTENDS Binding, TLC

CONSTANTS s1, s2, t, a, b, p, c, web, docs, wiki, note, image

Tail(passes, v) == [name |-> c, calls |-> {}, passes |-> passes, loose |-> FALSE,
                    constrains |-> {}, version |-> v]
Calling1 == [name |-> p, calls |-> {c}, passes |-> {}, loose |-> FALSE,
             constrains |-> {a}, version |-> 1]
Alone    == [Calling1 EXCEPT !.calls = {}, !.version = 2]

MCRecipes == {Calling1, Alone, Tail({}, 1), Tail({b}, 2)}

MCFiles == (p :> Calling1) @@ (c :> Tail({}, 1))

One  == t :> {a}
Both == t :> {a, b}
MCSurfaces == {One, Both, Down, Mute}
MCRank == (s1 :> 1) @@ (s2 :> 2)

\* The first server is down since its tools were discovered, and may come up
\* with others.
MCLive    == (s1 :> Down) @@ (s2 :> Both)
MCServers == (s1 :> [tools |-> t :> {}, enabled |-> TRUE]) @@ (s2 :> [tools |-> Both, enabled |-> TRUE])

To(s, gate) == [server |-> s, tool |-> t, recipe |-> p, gate |-> gate]
MCRoutes  == {To(s1, {a}), To(s2, {a})}
MCNewRows == {To(s2, {a, b}), To(s1, {})}

MCKind   == (web :> "http") @@ (docs :> "static") @@ (wiki :> "mcp_resource")
MCHost   == wiki :> s1
MCLength == (note :> 1) @@ (image :> 1)
Holding   == [up |-> TRUE, items |-> {[text |-> note, trust |-> "trusted"]}]
MCSources == {Holding, Nowhere}
MCFirst   == [q \in {web, docs, wiki} |-> Holding]
MCResources == (s1 :> {note, image}) @@ (s2 :> {})

=============================================================================
