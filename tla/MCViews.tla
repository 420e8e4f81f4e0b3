-------------------------------- MODULE MCViews --------------------------------
EXTENDS Views

CONSTANTS e, q, f, g

MCQueries == {e, q}
MCFacets == {f, g}

\* Two pages, one full page, one entry and an empty result.
MCBoot == {[x \in [query: MCQueries, facet: MCFacets] |->
              IF x.query = e THEN (IF x.facet = f THEN 3 ELSE 2)
                             ELSE (IF x.facet = f THEN 1 ELSE 0)]}
=============================================================================
