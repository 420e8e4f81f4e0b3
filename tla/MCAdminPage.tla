----------------------------- MODULE MCAdminPage -----------------------------
EXTENDS AdminPage

CONSTANTS i, d, v, r, w, h

MCImages == {i, d}
MCDangling == {d}
MCVolumes == {v}
MCRecords == {r}
MCNetworks == {w, h}
MCPredefined == {h}
MCVolatile == {w}
MCUncounted == {i}
MCBoot == {[x \in {i, d, v, r, w, h} |-> IF x \in {i, w} THEN "used" ELSE "free"]}
=============================================================================
