----------------------------- MODULE MCReports -----------------------------
(***************************************************************************)
(* Reports on two stores.  A behaviour is a scene: one page, and what      *)
(* moves while it is read: sales and shelves, the calendar, or users,      *)
(* products and stores.                                                    *)
(***************************************************************************)
EXTENDS Reports

CONSTANTS t1, t2, u1, u2, u3, c1, p1, p2, o1, o2, o3

VARIABLE scene

MCOwnerOf == [k \in Row |-> IF k \in {t2, u3, p2, o3} THEN t2 ELSE t1]

MCSeller == [o \in Order |-> CASE o = o1 -> u1 [] o = o2 -> u2 [] OTHER -> u3]

MCOpening == Row \ (Order \cup {c1})

MCViewer == {[id |-> u1, role |-> "ADMIN", tenantId |-> t1],
             [id |-> u2, role |-> "STAFF", tenantId |-> t1],
             [id |-> u3, role |-> "SUPER_ADMIN", tenantId |-> NoTenant]}

MCBaskets == {<<[product |-> p1, quantity |-> 1]>>,
              <<[product |-> p2, quantity |-> 1]>>}

MCShelves == {[p \in Product |-> 2]}

\* A month begins on the third day.
MCMonthStart == <<1, 1, 3>>

\* Every page for the administrator, and for the others those that differ.
PagesOf(v) ==
  CASE v.role = "ADMIN"       -> DOMAIN Pages(v)
    [] v.role = "STAFF"       -> {"aiSalesReport", "aiProfitLoss", "aiUsers",
                                  "toolDashboardSummary", "toolTopProducts",
                                  "toolLowStock"}
    [] v.role = "SUPER_ADMIN" -> DOMAIN PlatformPages \cup {"getTopProducts"}

Dated == {"getSummary", "aiDashboardSummary", "toolDashboardSummary"}

Scenes ==
  {s \in [page : UNION {PagesOf(v) : v \in Viewer}, viewer : Viewer,
          moves : {"sales", "days", "rows"}] :
     s.page \in PagesOf(s.viewer) /\ (s.moves = "days" => s.page \in Dated)}

MCInit == ReportsInit /\ scene \in Scenes

\* One order at a time is enough beside eight statements at a time.
Entered == IF scene.page = "getSummary" THEN {o1} ELSE Order

Moves ==
  CASE scene.moves = "sales" -> \/ \E o \in Entered : EnterOrder(o)
                                \/ CloseOrder(o1)
                                \/ RemoveRow(p1)
                                \/ Restock(p1)
    [] scene.moves = "days"  -> \/ \E o \in Entered \ {o3} : EnterOrder(o)
                                \/ Midnight
    [] scene.moves = "rows"  -> \/ EnterOrder(o1)
                                \/ AddRow(c1)
                                \/ \E k \in {c1, p1, u2} : RemoveRow(k)
                                \/ \E t \in Tenant : RemoveStore(t)

MCNext ==
  /\ \/ Moves
     \/ /\ ReadNext
        /\ reading = Closed =>
             reading'.page = scene.page /\ reading'.viewer = scene.viewer
  /\ UNCHANGED scene

MCSpec == MCInit /\ [][MCNext]_<<reportsVars, scene>>
=============================================================================
