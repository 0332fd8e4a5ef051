------------------------------ MODULE MoneyProofs ------------------------------
(***************************************************************************)
(* Theorems about what a user keeps around the ledger: Categories, for any *)
(* number of groups, categories and rows filed under them; Backups, for    *)
(* any number of requests, tables, rows and ids; CardInvoices, for any     *)
(* calendar, closing days, dates and amounts; and Investments, for any     *)
(* number of trades, assets and quantities.                                *)
(*                                                                         *)
(* Categories: with one request at a time what a request has read is still *)
(* in the tables when it writes; each write then keeps kinds and colors    *)
(* equal because of what was checked at the reads.                         *)
(*                                                                         *)
(* Backups: whoever replaces keeps all others from inserting, so the rows  *)
(* it has not deleted yet are those of the tables it has not reached; an   *)
(* id belongs to one table for ever, so that an archive lacks at most what *)
(* was not there yet when its table was read.                              *)
(*                                                                         *)
(* CardInvoices: the request that holds the row of the card has read every *)
(* payment towards its invoice, and what was read stays so until it posts; *)
(* with the payment on its way, no invoice exceeds its bill.               *)
(*                                                                         *)
(* Investments: a request that nothing overtook writes a row whose leg is  *)
(* new, and leaves all ledgers that it does not fold again as they were,   *)
(* with a purchase more or a last sale.                                    *)
(***************************************************************************)
EXTENDS CardInvoices, Investments, Categories, Backups, FiniteSetTheorems,
        NaturalsInduction, TLAPS

--------------------------------------------------------------------------------
(* Categories. *)

GroupRows == [GroupIds -> CategoryGroup \cup {Absent}]
CategoryRows == [CategoryIds -> Category \cup {Absent}]
UseRows == [UseIds -> Use \cup {Absent}]

(* The foreign keys hold. *)
KeysOK ==
  /\ \A c \in Present(categories) : categories[c].group \in Present(groups)
  /\ \A u \in Present(filed) : filed[u].category \in Present(categories)
  /\ budgets \subseteq Present(groups)
  /\ allocations \subseteq Present(groups)
  /\ patterns \subseteq Present(categories)

TablesOK ==
  /\ groups \in GroupRows
  /\ categories \in CategoryRows
  /\ filed \in UseRows
  /\ KeysOK
  /\ FilingIsConsistent

CategoryFits(row) ==
  /\ row \in Category
  /\ row.group \in Present(groups)
  /\ row.kind = groups[row.group].kind
  /\ row.color = groups[row.group].color

(* What a request has read still holds. *)
RequestFits(q) ==
  /\ q.op = "update group" =>
       /\ q.group \in Present(groups) /\ q.new \in CategoryGroup
       /\ q.loaded = groups[q.group]
       /\ "kind" \in q.fields /\ q.new.kind # q.loaded.kind => ~GroupInUse(q.group)
  /\ q.op \in {"delete group", "budget", "allocation"} => q.group \in Present(groups)
  /\ q.op = "allocation" => groups[q.group].kind = "expense"
  /\ q.op = "create category" => CategoryFits(q.row)
  /\ q.op = "update category" =>
       /\ q.category \in Present(categories)
       /\ q.loaded = categories[q.category]
       /\ CategoryFits(q.row)
       /\ q.row.kind # q.loaded.kind => ~CategoryInUse(q.category)
  /\ q.op = "delete category" => q.category \in Present(categories)
  /\ q.op = "use" =>
       /\ q.row \in Use /\ q.row.category \in Present(categories)
       /\ categories[q.row.category].kind = q.row.kind
  /\ q.op = "reapply" =>
       /\ DOMAIN q.assigned \subseteq Present(filed)
       /\ \A u \in DOMAIN q.assigned :
            q.assigned[u] # Absent =>
              /\ q.assigned[u] \in Present(categories)
              /\ MayMatch(q.assigned[u], filed[u])

CatInv ==
  /\ TablesOK
  /\ DOMAIN req = Requests
  /\ \A r \in Requests : req[r] = Absent \/ RequestFits(req[r])

LEMMA CatInit == CategoriesInit => CatInv
<1> SUFFICES ASSUME CategoriesInit PROVE CatInv
  OBVIOUS
<1>1. /\ groups \in GroupRows /\ categories \in CategoryRows /\ filed \in UseRows
      /\ DOMAIN req = Requests /\ \A r \in Requests : req[r] = Absent
  BY DEF CategoriesInit, GroupRows, CategoryRows, UseRows
<1>2. /\ Present(categories) = {} /\ Present(filed) = {}
      /\ budgets = {} /\ allocations = {} /\ patterns = {}
  BY DEF CategoriesInit, Present
<1>3. KeysOK /\ FilingIsConsistent
  BY <1>2 DEF KeysOK, FilingIsConsistent, CategoriesFitGroups, UsesFitCategories,
     AllocationsAreExpenses
<1> QED
  BY <1>1, <1>3 DEF CatInv, TablesOK

LEMMA ReadKeeps ==
  ASSUME CatInv, NEW r \in Requests, NEW q, Reads(r, q), RequestFits(q)
  PROVE  CatInv'
<1>1. /\ UNCHANGED <<groups, categories, budgets, allocations, filed, patterns>>
      /\ req' = [req EXCEPT ![r] = q]
  BY DEF Reads, tables
<1>2. TablesOK'
  BY <1>1 DEF CatInv, TablesOK, KeysOK, FilingIsConsistent, CategoriesFitGroups,
     UsesFitCategories, AllocationsAreExpenses
<1>3. ASSUME NEW x, RequestFits(x) PROVE RequestFits(x)'
  BY <1>1, <1>3 DEF RequestFits, CategoryFits, GroupInUse, HasCategories, CategoryInUse, MayMatch
<1>4. ASSUME NEW s \in Requests PROVE (req[s] = Absent \/ RequestFits(req[s]))'
  <2>1. CASE s = r
    <3>1. req'[s] = q
      BY <1>1, <2>1 DEF CatInv
    <3> QED
      BY <1>3, <3>1
  <2>2. CASE s # r
    <3>1. req'[s] = req[s]
      BY <1>1, <2>2 DEF CatInv
    <3> QED
      BY <1>3, <3>1 DEF CatInv
  <2> QED
    BY <2>1, <2>2
<1> QED
  BY <1>1, <1>2, <1>4 DEF CatInv

(* A request that is over, and one that never waits. *)
LEMMA WriteKeeps ==
  ASSUME CatInv, \A s, t \in Requests : s = t, NEW r \in Requests, TablesOK',
         req' = [req EXCEPT ![r] = Absent] \/ (req[r] = Absent /\ req' = req)
  PROVE  CatInv'
<1>1. req'[r] = Absent /\ DOMAIN req' = Requests
  BY DEF CatInv
<1>2. \A s \in Requests : req'[s] = Absent
  BY <1>1
<1> QED
  BY <1>1, <1>2 DEF CatInv

LEMMA RefusedKeeps ==
  ASSUME TablesOK, Refused
  PROVE  TablesOK'
BY DEF Refused, tables, TablesOK, KeysOK, FilingIsConsistent, CategoriesFitGroups,
   UsesFitCategories, AllocationsAreExpenses

(* What is read of a present row. *)
LEMMA PresentRows ==
  ASSUME TablesOK
  PROVE  /\ \A g \in Present(groups) : g \in GroupIds /\ groups[g] \in CategoryGroup
         /\ \A c \in Present(categories) : c \in CategoryIds /\ categories[c] \in Category
         /\ \A u \in Present(filed) : u \in UseIds /\ filed[u] \in Use
BY DEF TablesOK, GroupRows, CategoryRows, UseRows, Present

(* The reads. *)
LEMMA ReadsKeep ==
  ASSUME CatInv, NEW r \in Requests,
         \/ ReadForUpdateGroup(r) \/ ReadForDeleteGroup(r) \/ ReadForUpsert(r)
         \/ ReadForCreateCategory(r) \/ ReadForUpdateCategory(r) \/ ReadForDeleteCategory(r)
         \/ ReadForUse(r) \/ ReadForReapply(r)
  PROVE  CatInv'
<1>0. TablesOK
  BY DEF CatInv
<1>1. CASE ReadForUpdateGroup(r)
  <2>1. PICK g \in Present(groups), fields \in SUBSET {"kind", "color"}, new \in CategoryGroup :
          /\ ("kind" \in fields /\ new.kind # groups[g].kind) => ~GroupInUse(g)
          /\ Reads(r, [op |-> "update group", group |-> g, fields |-> fields, new |-> new,
                       loaded |-> groups[g]])
    BY <1>1 DEF ReadForUpdateGroup
  <2>2. PICK q : q = [op |-> "update group", group |-> g, fields |-> fields, new |-> new,
                      loaded |-> groups[g]]
    OBVIOUS
  <2>3. RequestFits(q)
    BY <2>1, <2>2 DEF RequestFits
  <2> QED
    BY <2>1, <2>2, <2>3, ReadKeeps
<1>2. CASE ReadForDeleteGroup(r)
  <2>1. PICK g \in Present(groups) : Reads(r, [op |-> "delete group", group |-> g])
    BY <1>2 DEF ReadForDeleteGroup
  <2>2. PICK q : q = [op |-> "delete group", group |-> g]
    OBVIOUS
  <2>3. RequestFits(q)
    BY <2>2 DEF RequestFits
  <2> QED
    BY <2>1, <2>2, <2>3, ReadKeeps
<1>3. CASE ReadForUpsert(r)
  <2>1. PICK g \in Present(groups), op \in {"budget", "allocation"} :
          /\ op = "allocation" => groups[g].kind = "expense"
          /\ Reads(r, [op |-> op, group |-> g])
    BY <1>3 DEF ReadForUpsert
  <2>2. PICK q : q = [op |-> op, group |-> g]
    OBVIOUS
  <2>3. RequestFits(q)
    BY <2>1, <2>2 DEF RequestFits
  <2> QED
    BY <2>1, <2>2, <2>3, ReadKeeps
<1>4. CASE ReadForCreateCategory(r)
  <2>1. PICK g \in Present(groups), kind \in Kinds :
          /\ groups[g].kind = kind
          /\ Reads(r, [op |-> "create category",
                       row |-> [kind |-> kind, group |-> g, color |-> groups[g].color]])
    BY <1>4 DEF ReadForCreateCategory
  <2>2. PICK q, row : /\ row = [kind |-> kind, group |-> g, color |-> groups[g].color]
                      /\ q = [op |-> "create category", row |-> row]
    OBVIOUS
  <2>3. CategoryFits(row)
    BY <1>0, <2>1, <2>2, PresentRows DEF CategoryFits, Category, CategoryGroup
  <2>4. RequestFits(q)
    BY <2>2, <2>3 DEF RequestFits
  <2> QED
    BY <2>1, <2>2, <2>4, ReadKeeps
<1>5. CASE ReadForUpdateCategory(r)
  <2>1. PICK c \in Present(categories), kind \in Kinds, g \in Present(groups) :
          /\ groups[g].kind = kind
          /\ kind # categories[c].kind => ~CategoryInUse(c)
          /\ Reads(r, [op |-> "update category", category |-> c, loaded |-> categories[c],
                       row |-> [kind |-> kind, group |-> g, color |-> groups[g].color]])
    BY <1>5 DEF ReadForUpdateCategory, ColorOnMove
  <2>2. PICK q, row : /\ row = [kind |-> kind, group |-> g, color |-> groups[g].color]
                      /\ q = [op |-> "update category", category |-> c,
                              loaded |-> categories[c], row |-> row]
    OBVIOUS
  <2>3. CategoryFits(row) /\ row.kind = kind
    BY <1>0, <2>1, <2>2, PresentRows DEF CategoryFits, Category, CategoryGroup
  <2>4. RequestFits(q)
    BY <2>1, <2>2, <2>3 DEF RequestFits
  <2> QED
    BY <2>1, <2>2, <2>4, ReadKeeps
<1>6. CASE ReadForDeleteCategory(r)
  <2>1. PICK c \in Present(categories) : Reads(r, [op |-> "delete category", category |-> c])
    BY <1>6 DEF ReadForDeleteCategory
  <2>2. PICK q : q = [op |-> "delete category", category |-> c]
    OBVIOUS
  <2>3. RequestFits(q)
    BY <2>2 DEF RequestFits
  <2> QED
    BY <2>1, <2>2, <2>3, ReadKeeps
<1>7. CASE ReadForUse(r)
  <2>1. PICK use \in Use : /\ use.category \in Present(categories)
                          /\ categories[use.category].kind = use.kind
                          /\ Reads(r, [op |-> "use", row |-> use])
    BY <1>7 DEF ReadForUse
  <2>2. PICK q : q = [op |-> "use", row |-> use]
    OBVIOUS
  <2>3. RequestFits(q)
    BY <2>1, <2>2 DEF RequestFits
  <2> QED
    BY <2>1, <2>2, <2>3, ReadKeeps
<1>8. CASE ReadForReapply(r)
  <2>1. PICK a \in [Present(filed) -> patterns \cup {Absent}] :
          /\ \A u \in Present(filed) : a[u] # Absent => MayMatch(a[u], filed[u])
          /\ Reads(r, [op |-> "reapply", assigned |-> a])
    BY <1>8 DEF ReadForReapply
  <2>2. PICK q : q = [op |-> "reapply", assigned |-> a]
    OBVIOUS
  <2>3. patterns \subseteq Present(categories)
    BY <1>0 DEF TablesOK, KeysOK
  <2>4. RequestFits(q)
    BY <2>1, <2>2, <2>3 DEF RequestFits
  <2> QED
    BY <2>1, <2>2, <2>4, ReadKeeps
<1> QED
  BY <1>1, <1>2, <1>3, <1>4, <1>5, <1>6, <1>7, <1>8

--------------------------------------------------------------------------------
(* The writes. *)

(* The tables, row by row. *)
RowsOK ==
  /\ groups \in GroupRows /\ categories \in CategoryRows /\ filed \in UseRows
  /\ \A c \in CategoryIds : categories[c] # Absent => CategoryFits(categories[c])
  /\ \A u \in UseIds : filed[u] # Absent =>
       /\ filed[u].category \in Present(categories)
       /\ filed[u].what # "loan" => categories[filed[u].category].kind = filed[u].kind
  /\ budgets \subseteq Present(groups)
  /\ allocations \subseteq Present(groups)
  /\ \A g \in allocations : groups[g].kind = "expense"
  /\ patterns \subseteq Present(categories)

LEMMA Unfolded ==
  ASSUME TablesOK
  PROVE  RowsOK
BY DEF RowsOK, TablesOK, KeysOK, FilingIsConsistent, CategoriesFitGroups, UsesFitCategories,
   AllocationsAreExpenses, GroupRows, CategoryRows, UseRows, CategoryFits, Present

LEMMA Folded ==
  ASSUME RowsOK'
  PROVE  TablesOK'
BY DEF RowsOK, TablesOK, KeysOK, FilingIsConsistent, CategoriesFitGroups, UsesFitCategories,
   AllocationsAreExpenses, GroupRows, CategoryRows, UseRows, CategoryFits, Present

LEMMA CreateGroupKeeps ==
  ASSUME TablesOK, NEW r, CreateGroup(r)
  PROVE  TablesOK'
<1>1. PICK g \in GroupIds \ Present(groups), row \in CategoryGroup :
        groups' = [groups EXCEPT ![g] = row]
  BY DEF CreateGroup
<1>2. UNCHANGED <<categories, budgets, allocations, filed, patterns>>
  BY DEF CreateGroup
<1>3. row # Absent /\ groups \in GroupRows
  BY CategoryAssumption, Unfolded DEF RowsOK
<1>4. /\ groups' \in GroupRows
      /\ \A x \in Present(groups) : x \in Present(groups') /\ groups'[x] = groups[x]
  BY <1>1, <1>3 DEF GroupRows, Present
<1>5. \A c \in CategoryIds : categories'[c] # Absent => CategoryFits(categories[c])'
  BY <1>2, <1>4, Unfolded DEF RowsOK, CategoryFits
<1> QED
  BY <1>2, <1>4, <1>5, Unfolded, Folded DEF RowsOK

LEMMA UpdateGroupKeeps ==
  ASSUME CatInv, NEW r \in Requests, UpdateGroup(r)
  PROVE  TablesOK'
<1>0. TablesOK
  BY DEF CatInv
<1>1. PICK q, g : q = req[r] /\ g = q.group
  OBVIOUS
<1>2. /\ g \in Present(groups) /\ q.new \in CategoryGroup /\ q.loaded = groups[g]
      /\ "kind" \in q.fields /\ q.new.kind # groups[g].kind => ~GroupInUse(g)
  BY <1>1 DEF CatInv, UpdateGroup, Writes, RequestFits
<1>3. g \in GroupIds /\ groups[g] \in CategoryGroup /\ groups[g] # Absent /\ groups \in GroupRows
  BY <1>0, <1>2, PresentRows, Unfolded DEF RowsOK, Present
<1>4. PICK row : row =
        [kind |-> IF "kind" \in q.fields /\ q.new.kind # groups[g].kind
                  THEN q.new.kind ELSE groups[g].kind,
         color |-> IF "color" \in q.fields /\ q.new.color # groups[g].color
                   THEN q.new.color ELSE groups[g].color]
  OBVIOUS
<1>5. /\ groups' = [groups EXCEPT ![g] = row]
      /\ categories' = [c \in CategoryIds |->
           IF "color" \in q.fields /\ c \in Present(categories) /\ categories[c].group = g
           THEN [categories[c] EXCEPT !.color = q.new.color] ELSE categories[c]]
      /\ UNCHANGED <<budgets, allocations, filed, patterns>>
  BY <1>1, <1>2, <1>3, <1>4 DEF UpdateGroup
<1>6. /\ row \in CategoryGroup /\ row # Absent
      /\ row.kind = groups[g].kind \/ ~GroupInUse(g)
      /\ row.color = IF "color" \in q.fields THEN q.new.color ELSE groups[g].color
  BY <1>2, <1>3, <1>4, CategoryAssumption DEF CategoryGroup
<1>7. /\ groups' \in GroupRows /\ Present(groups') = Present(groups)
      /\ groups'[g] = row /\ \A x \in GroupIds : x # g => groups'[x] = groups[x]
  BY <1>3, <1>5, <1>6 DEF GroupRows, Present
<1>8. /\ categories \in CategoryRows
      /\ \A c \in CategoryIds : categories[c] # Absent => CategoryFits(categories[c])
  BY <1>0, Unfolded DEF RowsOK
<1>9. \A c \in CategoryIds :
        /\ categories[c] = Absent => categories'[c] = Absent
        /\ categories[c] # Absent =>
             /\ categories'[c] \in Category
             /\ categories'[c].kind = categories[c].kind
             /\ categories'[c].group = categories[c].group
             /\ categories'[c].color = IF "color" \in q.fields /\ categories[c].group = g
                                       THEN q.new.color ELSE categories[c].color
  BY <1>2, <1>5, <1>8 DEF CategoryRows, Category, CategoryGroup, Present
<1>10. categories' \in CategoryRows /\ Present(categories') = Present(categories)
  BY <1>5, <1>8, <1>9, CategoryAssumption DEF CategoryRows, Present
<1>11. ASSUME NEW c \in CategoryIds, categories'[c] # Absent
       PROVE  CategoryFits(categories[c])'
  <2>1. /\ categories[c] # Absent /\ CategoryFits(categories[c])
        /\ categories'[c] \in Category
        /\ categories'[c].kind = categories[c].kind
        /\ categories'[c].group = categories[c].group
    BY <1>8, <1>9, <1>11
  <2>2. CASE categories[c].group = g
    <3>1. GroupInUse(g)
      BY <1>8, <2>1, <2>2 DEF GroupInUse, HasCategories, Present, CategoryRows
    <3>2. categories'[c].color = row.color
      BY <1>6, <1>9, <2>1, <2>2 DEF CategoryFits
    <3> QED
      BY <1>6, <1>7, <2>1, <2>2, <3>1, <3>2 DEF CategoryFits
  <2>3. CASE categories[c].group # g
    <3>1. categories'[c].color = categories[c].color /\ categories[c].group \in GroupIds
      BY <1>9, <2>1, <2>3 DEF CategoryFits, Category
    <3> QED
      BY <1>7, <2>1, <2>3, <3>1 DEF CategoryFits
  <2> QED
    BY <2>2, <2>3
<1>12. ASSUME NEW u \in UseIds, filed'[u] # Absent
       PROVE  /\ filed'[u].category \in Present(categories')
              /\ filed'[u].what # "loan" => categories'[filed'[u].category].kind = filed'[u].kind
  <2>1. /\ filed'[u] = filed[u] /\ filed[u].category \in Present(categories)
        /\ filed[u].what # "loan" => categories[filed[u].category].kind = filed[u].kind
    BY <1>0, <1>5, <1>12, Unfolded DEF RowsOK
  <2>2. filed[u].category \in CategoryIds /\ categories[filed[u].category] # Absent
    BY <1>0, <2>1, PresentRows DEF Present
  <2> QED
    BY <1>9, <1>10, <2>1, <2>2
<1>13. \A x \in allocations' : groups'[x].kind = "expense"
  <2>1. \A x \in allocations : groups[x].kind = "expense" /\ x \in GroupIds
    BY <1>0, PresentRows, Unfolded DEF RowsOK
  <2>2. g \in allocations => row.kind = groups[g].kind
    BY <1>6 DEF GroupInUse
  <2> QED
    BY <1>5, <1>7, <2>1, <2>2
<1> QED
  BY <1>0, <1>5, <1>7, <1>10, <1>11, <1>12, <1>13, Unfolded, Folded DEF RowsOK

LEMMA DeleteGroupKeeps ==
  ASSUME CatInv, NEW r \in Requests, DeleteGroup(r)
  PROVE  TablesOK'
<1>0. TablesOK
  BY DEF CatInv
<1>1. PICK g : g = req[r].group
  OBVIOUS
<1>2. CASE groups[g] = Absent \/ HasCategories(g)
  BY <1>0, <1>1, <1>2, RefusedKeeps DEF DeleteGroup
<1>3. CASE ~(groups[g] = Absent \/ HasCategories(g))
  <2>1. /\ groups' = [groups EXCEPT ![g] = Absent]
        /\ budgets' = budgets \ {g} /\ allocations' = allocations \ {g}
        /\ UNCHANGED <<categories, filed, patterns>>
    BY <1>1, <1>3 DEF DeleteGroup
  <2>2. groups' \in GroupRows /\ \A x \in GroupIds : x # g => groups'[x] = groups[x]
    BY <1>0, <2>1, Unfolded DEF RowsOK, GroupRows
  <2>3. \A x \in Present(groups) : x # g => x \in Present(groups') /\ groups'[x] = groups[x]
    BY <1>0, <2>2, PresentRows DEF Present, GroupRows
  <2>4. ASSUME NEW c \in CategoryIds, categories'[c] # Absent PROVE CategoryFits(categories[c])'
    <3>1. categories'[c] = categories[c] /\ CategoryFits(categories[c])
      BY <1>0, <2>1, <2>4, Unfolded DEF RowsOK
    <3>2. categories[c].group # g
      BY <1>0, <1>3, <2>1, <2>4, Unfolded DEF RowsOK, HasCategories, Present, CategoryRows
    <3> QED
      BY <2>3, <3>1, <3>2 DEF CategoryFits
  <2>5. /\ budgets' \subseteq Present(groups') /\ allocations' \subseteq Present(groups')
        /\ \A x \in allocations' : groups'[x].kind = "expense"
    BY <1>0, <2>1, <2>3, Unfolded DEF RowsOK
  <2> QED
    BY <1>0, <2>1, <2>2, <2>4, <2>5, Unfolded, Folded DEF RowsOK
<1> QED
  BY <1>2, <1>3

LEMMA PlanKeeps ==
  ASSUME CatInv, NEW r \in Requests, UpsertBudget(r) \/ UpsertAllocation(r) \/ DeletePlan(r)
  PROVE  TablesOK'
<1>0. TablesOK
  BY DEF CatInv
<1>1. CASE Refused
  BY <1>0, <1>1, RefusedKeeps
<1>2. CASE ~Refused
  <2>1. UNCHANGED <<groups, categories, filed, patterns>>
    BY <1>2 DEF UpsertBudget, UpsertAllocation, DeletePlan
  <2>2. /\ budgets' \subseteq Present(groups) /\ allocations' \subseteq Present(groups)
        /\ \A x \in allocations' : groups[x].kind = "expense"
    <3>1. CASE UpsertBudget(r)
      BY <1>0, <1>2, <3>1, Unfolded DEF RowsOK, UpsertBudget, Writes, CatInv, RequestFits
    <3>2. CASE UpsertAllocation(r)
      <4>1. req[r].group \in Present(groups) /\ groups[req[r].group].kind = "expense"
        BY <3>2 DEF UpsertAllocation, Writes, CatInv, RequestFits
      <4>2. allocations' = allocations \cup {req[r].group} /\ budgets' = budgets
        BY <1>2, <3>2 DEF UpsertAllocation
      <4> QED
        BY <1>0, <4>1, <4>2, Unfolded DEF RowsOK
    <3>3. CASE DeletePlan(r)
      BY <1>0, <3>3, Unfolded DEF RowsOK, DeletePlan
    <3> QED
      BY <3>1, <3>2, <3>3
  <2>3. \A c \in CategoryIds : categories'[c] # Absent => CategoryFits(categories[c])'
    BY <1>0, <2>1, Unfolded DEF RowsOK, CategoryFits
  <2> QED
    BY <1>0, <2>1, <2>2, <2>3, Unfolded, Folded DEF RowsOK
<1> QED
  BY <1>1, <1>2

LEMMA CreateCategoryKeeps ==
  ASSUME CatInv, NEW r \in Requests, CreateCategory(r)
  PROVE  TablesOK'
<1>0. TablesOK /\ RowsOK
  BY Unfolded DEF CatInv
<1>1. CategoryFits(req[r].row)
  BY DEF CreateCategory, Writes, CatInv, RequestFits
<1>2. groups[req[r].row.group] # Absent
  BY <1>1 DEF CategoryFits, Present
<1>3. /\ \E c \in CategoryIds \ Present(categories) :
           categories' = [categories EXCEPT ![c] = req[r].row]
      /\ UNCHANGED <<groups, budgets, allocations, filed, patterns>>
  BY <1>2 DEF CreateCategory
<1>4. PICK c \in CategoryIds \ Present(categories) :
           categories' = [categories EXCEPT ![c] = req[r].row]
  BY <1>3
<1>5. req[r].row \in Category /\ categories \in CategoryRows
  BY <1>0, <1>1 DEF CategoryFits, RowsOK
<1>6. /\ categories' \in CategoryRows
      /\ \A x \in Present(categories) : x \in Present(categories') /\ categories'[x] = categories[x]
      /\ categories'[c] = req[r].row
      /\ \A x \in CategoryIds : x # c => categories'[x] = categories[x]
  BY <1>4, <1>5 DEF CategoryRows, Present
<1>7. \A x \in CategoryIds : categories'[x] # Absent => CategoryFits(categories[x])'
  BY <1>0, <1>1, <1>3, <1>6 DEF RowsOK, CategoryFits
<1> QED
  BY <1>0, <1>3, <1>6, <1>7, Folded DEF RowsOK

(* With its row as it was loaded, a category gets the row that was checked. *)
LEMMA UpdateCategoryKeeps ==
  ASSUME CatInv, NEW r \in Requests, UpdateCategory(r)
  PROVE  TablesOK'
<1>0. TablesOK /\ RowsOK
  BY Unfolded DEF CatInv
<1>1. PICK q, c, row : q = req[r] /\ c = q.category /\ row = q.row
  OBVIOUS
<1>2. /\ c \in Present(categories) /\ q.loaded = categories[c]
      /\ CategoryFits(row)
      /\ row.kind # categories[c].kind => ~CategoryInUse(c)
  BY <1>1 DEF UpdateCategory, Writes, CatInv, RequestFits
<1>3. /\ groups[row.group] # Absent /\ c \in CategoryIds /\ categories[c] # Absent
      /\ categories \in CategoryRows /\ row \in Category
  BY <1>0, <1>2, PresentRows DEF CategoryFits, Present, RowsOK
<1>4. /\ categories' = [categories EXCEPT ![c] =
           [kind |-> row.kind, group |-> row.group, color |-> row.color]]
      /\ UNCHANGED <<groups, budgets, allocations, filed, patterns>>
  <2>1. /\ row.kind = (IF row.kind # q.loaded.kind THEN row.kind ELSE categories[c].kind)
        /\ row.group = (IF row.group # q.loaded.group THEN row.group ELSE categories[c].group)
        /\ row.color = (IF row.color # q.loaded.color THEN row.color ELSE categories[c].color)
    BY <1>2
  <2>2. /\ categories' = [categories EXCEPT ![c] =
             [kind |-> IF row.kind # q.loaded.kind THEN row.kind ELSE categories[c].kind,
              group |-> IF row.group # q.loaded.group THEN row.group ELSE categories[c].group,
              color |-> IF row.color # q.loaded.color THEN row.color ELSE categories[c].color]]
        /\ UNCHANGED <<groups, budgets, allocations, filed, patterns>>
    BY <1>1, <1>3, Zenon DEF UpdateCategory
  <2> QED
    BY <2>1, <2>2, Zenon
<1>5. row = [kind |-> row.kind, group |-> row.group, color |-> row.color] /\ row # Absent
  BY <1>3, CategoryAssumption DEF Category
<1>6. categories' = [categories EXCEPT ![c] = row]
  BY <1>4, <1>5
<1>7. /\ categories' \in CategoryRows
      /\ Present(categories') = Present(categories)
      /\ categories'[c] = row
      /\ \A x \in CategoryIds : x # c => categories'[x] = categories[x]
  BY <1>3, <1>5, <1>6 DEF CategoryRows, Present
<1>8. \A x \in CategoryIds : categories'[x] # Absent => CategoryFits(categories[x])'
  BY <1>0, <1>2, <1>4, <1>7 DEF RowsOK, CategoryFits
<1>9. ASSUME NEW u \in UseIds, filed'[u] # Absent
      PROVE  /\ filed'[u].category \in Present(categories')
             /\ filed'[u].what # "loan" => categories'[filed'[u].category].kind = filed'[u].kind
  <2>1. /\ filed'[u] = filed[u] /\ filed[u].category \in Present(categories)
        /\ filed[u].what # "loan" => categories[filed[u].category].kind = filed[u].kind
        /\ u \in Present(filed) /\ filed[u] \in Use
    BY <1>0, <1>4, <1>9 DEF RowsOK, UseRows, Present
  <2>2. CASE filed[u].category = c
    <3>1. filed[u].what # "loan" => row.kind = categories[c].kind
      BY <1>2, <2>1, <2>2 DEF CategoryInUse, Use
    <3> QED
      BY <1>7, <2>1, <2>2, <3>1
  <2>3. CASE filed[u].category # c
    <3>1. filed[u].category \in CategoryIds
      BY <2>1 DEF Use
    <3> QED
      BY <1>7, <2>1, <2>3, <3>1
  <2> QED
    BY <2>2, <2>3
<1> QED
  BY <1>0, <1>4, <1>7, <1>8, <1>9, Folded DEF RowsOK

LEMMA DeleteCategoryKeeps ==
  ASSUME CatInv, NEW r \in Requests, DeleteCategory(r)
  PROVE  TablesOK'
<1>0. TablesOK /\ RowsOK
  BY Unfolded DEF CatInv
<1>1. PICK c : c = req[r].category
  OBVIOUS
<1>2. CASE categories[c] = Absent \/ Referenced(c)
  BY <1>0, <1>1, <1>2, RefusedKeeps DEF DeleteCategory
<1>3. CASE ~(categories[c] = Absent \/ Referenced(c))
  <2>1. /\ categories' = [categories EXCEPT ![c] = Absent]
        /\ patterns' = patterns \ {c}
        /\ UNCHANGED <<groups, budgets, allocations, filed>>
    BY <1>1, <1>3 DEF DeleteCategory
  <2>2. /\ categories' \in CategoryRows
        /\ \A x \in CategoryIds : categories'[x] # Absent => categories'[x] = categories[x]
        /\ \A x \in Present(categories) : x # c =>
             x \in Present(categories') /\ categories'[x] = categories[x]
    BY <1>0, <2>1 DEF RowsOK, CategoryRows, Present
  <2>3. \A x \in CategoryIds : categories'[x] # Absent => CategoryFits(categories[x])'
    BY <1>0, <2>1, <2>2 DEF RowsOK, CategoryFits
  <2>4. \A u \in UseIds : filed[u] # Absent => filed[u].category # c
    BY <1>0, <1>3 DEF Referenced, Present, RowsOK, UseRows
  <2>5. patterns' \subseteq Present(categories')
    BY <1>0, <2>1, <2>2 DEF RowsOK
  <2> QED
    BY <1>0, <2>1, <2>2, <2>3, <2>4, <2>5, Folded DEF RowsOK
<1> QED
  BY <1>2, <1>3

LEMMA UsesKeep ==
  ASSUME CatInv, NEW r \in Requests, AddUse(r) \/ DeleteUse(r) \/ ChangePatterns(r)
  PROVE  TablesOK'
<1>0. TablesOK /\ RowsOK
  BY Unfolded DEF CatInv
<1>1. UNCHANGED <<groups, categories, budgets, allocations>>
  BY DEF AddUse, DeleteUse, ChangePatterns, Refused, tables
<1>2. \A x \in CategoryIds : categories'[x] # Absent => CategoryFits(categories[x])'
  BY <1>0, <1>1 DEF RowsOK, CategoryFits
<1>3. CASE AddUse(r)
  <2>1. /\ req[r].row \in Use /\ req[r].row.category \in Present(categories)
        /\ categories[req[r].row.category].kind = req[r].row.kind
    BY <1>3 DEF AddUse, Writes, CatInv, RequestFits
  <2>2. categories[req[r].row.category] # Absent
    BY <2>1 DEF Present
  <2>3. /\ \E u \in UseIds \ Present(filed) : filed' = [filed EXCEPT ![u] = req[r].row]
        /\ patterns' = patterns
    BY <1>3, <2>2 DEF AddUse
  <2>4. PICK u \in UseIds : filed' = [filed EXCEPT ![u] = req[r].row]
    BY <2>3
  <2>5. /\ filed' \in UseRows /\ filed'[u] = req[r].row
        /\ \A x \in UseIds : x # u => filed'[x] = filed[x]
    BY <1>0, <2>1, <2>4 DEF RowsOK, UseRows
  <2> QED
    BY <1>0, <1>1, <1>2, <2>1, <2>3, <2>5, Folded DEF RowsOK
<1>4. CASE DeleteUse(r)
  <2>1. PICK u \in Present(filed) : filed' = [filed EXCEPT ![u] = Absent]
    BY <1>4 DEF DeleteUse
  <2>2. patterns' = patterns
    BY <1>4 DEF DeleteUse
  <2>3. /\ filed' \in UseRows
        /\ \A x \in UseIds : filed'[x] # Absent => filed'[x] = filed[x]
    BY <1>0, <2>1 DEF RowsOK, UseRows
  <2> QED
    BY <1>0, <1>1, <1>2, <2>2, <2>3, Folded DEF RowsOK
<1>5. CASE ChangePatterns(r)
  <2>1. patterns' \subseteq Present(categories) /\ filed' = filed
    BY <1>5 DEF ChangePatterns
  <2> QED
    BY <1>0, <1>1, <1>2, <2>1, Folded DEF RowsOK
<1> QED
  BY <1>3, <1>4, <1>5

LEMMA ReapplyKeeps ==
  ASSUME CatInv, NEW r \in Requests, ReapplyRules(r)
  PROVE  TablesOK'
<1>0. TablesOK /\ RowsOK
  BY Unfolded DEF CatInv
<1>1. PICK a, changed : a = req[r].assigned /\ changed = {u \in DOMAIN a : a[u] # Absent}
  OBVIOUS
<1>2. CASE \E u \in changed : filed[u] = Absent \/ categories[a[u]] = Absent
  BY <1>0, <1>1, <1>2, RefusedKeeps DEF ReapplyRules
<1>3. CASE ~(\E u \in changed : filed[u] = Absent \/ categories[a[u]] = Absent)
  <2>1. /\ filed' = [u \in UseIds |->
             IF u \in changed THEN [filed[u] EXCEPT !.category = a[u]] ELSE filed[u]]
        /\ UNCHANGED <<groups, categories, budgets, allocations, patterns>>
    BY <1>1, <1>3 DEF ReapplyRules
  <2>2. \A u \in changed : /\ u \in Present(filed) /\ a[u] \in Present(categories)
                           /\ MayMatch(a[u], filed[u])
    BY <1>1 DEF ReapplyRules, Writes, CatInv, RequestFits
  <2>3. ASSUME NEW u \in UseIds
        PROVE  /\ filed'[u] \in Use \cup {Absent}
               /\ filed'[u] # Absent =>
                    /\ filed'[u].category \in Present(categories)
                    /\ filed'[u].what # "loan" =>
                         categories[filed'[u].category].kind = filed'[u].kind
    <3>1. CASE u \in changed
      <4>1. /\ filed[u] \in Use /\ a[u] \in CategoryIds /\ a[u] \in Present(categories)
            /\ categories[a[u]].kind = filed[u].kind
        BY <1>0, <2>2, <3>1, PresentRows DEF MayMatch
      <4>2. filed'[u] = [filed[u] EXCEPT !.category = a[u]]
        BY <2>1, <3>1
      <4> QED
        BY <4>1, <4>2 DEF Use
    <3>2. CASE u \notin changed
      BY <1>0, <2>1, <3>2 DEF RowsOK, UseRows
    <3> QED
      BY <3>1, <3>2
  <2>4. filed' \in UseRows
    BY <2>1, <2>3 DEF UseRows
  <2>5. \A x \in CategoryIds : categories'[x] # Absent => CategoryFits(categories[x])'
    BY <1>0, <2>1 DEF RowsOK, CategoryFits
  <2> QED
    BY <1>0, <2>1, <2>3, <2>4, <2>5, Folded DEF RowsOK
<1> QED
  BY <1>2, <1>3

LEMMA CategoryStepKeeps ==
  ASSUME CatInv, \A s, t \in Requests : s = t, NEW r \in Requests, CategoryStep(r)
  PROVE  CatInv'
<1>0. TablesOK
  BY DEF CatInv
<1>1. CASE \/ ReadForUpdateGroup(r) \/ ReadForDeleteGroup(r) \/ ReadForUpsert(r)
           \/ ReadForCreateCategory(r) \/ ReadForUpdateCategory(r) \/ ReadForDeleteCategory(r)
           \/ ReadForUse(r) \/ ReadForReapply(r)
  BY <1>1, ReadsKeep
<1>2. CASE CreateGroup(r)
  <2>1. TablesOK'
    BY <1>0, <1>2, CreateGroupKeeps
  <2> QED
    BY <1>2, <2>1, WriteKeeps DEF CreateGroup
<1>3. CASE UpdateGroup(r)
  <2>1. TablesOK'
    BY <1>3, UpdateGroupKeeps
  <2> QED
    BY <1>3, <2>1, WriteKeeps DEF UpdateGroup, Writes
<1>4. CASE DeleteGroup(r)
  <2>1. TablesOK'
    BY <1>4, DeleteGroupKeeps
  <2> QED
    BY <1>4, <2>1, WriteKeeps DEF DeleteGroup, Writes
<1>5. CASE UpsertBudget(r) \/ UpsertAllocation(r) \/ DeletePlan(r)
  <2>1. TablesOK'
    BY <1>5, PlanKeeps
  <2> QED
    BY <1>5, <2>1, WriteKeeps DEF UpsertBudget, UpsertAllocation, DeletePlan, Writes
<1>6. CASE CreateCategory(r)
  <2>1. TablesOK'
    BY <1>6, CreateCategoryKeeps
  <2> QED
    BY <1>6, <2>1, WriteKeeps DEF CreateCategory, Writes
<1>7. CASE UpdateCategory(r)
  <2>1. TablesOK'
    BY <1>7, UpdateCategoryKeeps
  <2> QED
    BY <1>7, <2>1, WriteKeeps DEF UpdateCategory, Writes
<1>8. CASE DeleteCategory(r)
  <2>1. TablesOK'
    BY <1>8, DeleteCategoryKeeps
  <2> QED
    BY <1>8, <2>1, WriteKeeps DEF DeleteCategory, Writes
<1>9. CASE AddUse(r) \/ DeleteUse(r) \/ ChangePatterns(r)
  <2>1. TablesOK'
    BY <1>9, UsesKeep
  <2> QED
    BY <1>9, <2>1, WriteKeeps DEF AddUse, DeleteUse, ChangePatterns, Writes
<1>10. CASE ReapplyRules(r)
  <2>1. TablesOK'
    BY <1>10, ReapplyKeeps
  <2> QED
    BY <1>10, <2>1, WriteKeeps DEF ReapplyRules, Writes
<1> QED
  BY <1>1, <1>2, <1>3, <1>4, <1>5, <1>6, <1>7, <1>8, <1>9, <1>10 DEF CategoryStep

LEMMA CatStutters ==
  ASSUME CatInv, UNCHANGED categoryVars
  PROVE  CatInv'
<1>1. UNCHANGED <<groups, categories, budgets, allocations, filed, patterns, req>>
  BY DEF categoryVars
<1>2. TablesOK'
  BY <1>1, RefusedKeeps DEF Refused, tables, CatInv
<1>3. ASSUME NEW x, RequestFits(x) PROVE RequestFits(x)'
  BY <1>1, <1>3 DEF RequestFits, CategoryFits, GroupInUse, HasCategories, CategoryInUse, MayMatch
<1> QED
  BY <1>1, <1>2, <1>3 DEF CatInv

(* Requests that end before the next begins keep the books consistent with *)
(* the categories, however many rows there are and whatever is created,    *)
(* moved, recolored, reclassified, deleted or refiled by the rules: every  *)
(* category has the kind and the color of its group, every transaction and *)
(* recurring template a category of its kind, and only expense groups a    *)
(* share of the income (services/categories.py, category_groups.py,        *)
(* budget_plan.py, categorization_rules.py).                               *)
THEOREM FilingStaysConsistent ==
  ASSUME \A s, t \in Requests : s = t
  PROVE  CategoriesSpec => []FilingIsConsistent
<1>1. CategoriesInit => CatInv
  BY CatInit
<1>2. CatInv /\ [CategoriesNext]_categoryVars => CatInv'
  BY CategoryStepKeeps, CatStutters DEF CategoriesNext
<1>3. CatInv => FilingIsConsistent
  BY DEF CatInv, TablesOK
<1> QED
  BY <1>1, <1>2, <1>3, PTL DEF CategoriesSpec

--------------------------------------------------------------------------------
(* Backups. *)

Tables == ToSet(BACKUP_TABLES)
Place(t) == CHOOSE i \in 1 .. Len(BACKUP_TABLES) : BACKUP_TABLES[i] = t

(* The registry has every table once, after the tables it refers to. *)
LEMMA RegistryOrder ==
  /\ Len(BACKUP_TABLES) \in Nat
  /\ \A t \in Tables : /\ Place(t) \in 1 .. Len(BACKUP_TABLES)
                       /\ BACKUP_TABLES[Place(t)] = t
  /\ \A i \in 1 .. Len(BACKUP_TABLES) : /\ BACKUP_TABLES[i] \in Tables
                                        /\ Place(BACKUP_TABLES[i]) = i
  /\ \A t, u \in Tables : u \in References(t) => Place(u) <= Place(t)
<1>1. Len(BACKUP_TABLES) = 18 /\ DOMAIN BACKUP_TABLES = 1 .. 18
  BY DEF BACKUP_TABLES
<1>2. \A i, j \in 1 .. 18 : BACKUP_TABLES[i] = BACKUP_TABLES[j] => i = j
  BY DEF BACKUP_TABLES
<1>3. \A t \in Tables : /\ Place(t) \in 1 .. Len(BACKUP_TABLES)
                        /\ BACKUP_TABLES[Place(t)] = t
  BY <1>1 DEF Tables, ToSet, Place
<1>4. \A i \in 1 .. 18 : BACKUP_TABLES[i] \in Tables
  BY <1>1 DEF Tables, ToSet
<1>5. \A i \in 1 .. 18 : Place(BACKUP_TABLES[i]) = i
  BY <1>1, <1>2, <1>3, <1>4
<1>6. \A i, j \in 1 .. 18 : BACKUP_TABLES[j] \in References(BACKUP_TABLES[i]) => j <= i
  BY DEF BACKUP_TABLES, References
<1> QED
  BY <1>1, <1>3, <1>4, <1>5, <1>6

Row == [id : Nat \ {0}, table : Tables, ref : Nat]
Copy == [rows : SUBSET Row, theme : Themes, quiet : BOOLEAN]
IdMap == UNION {[S -> Nat \ {0}] : S \in SUBSET Nat}
Work ==
  [at : {"idle", "export", "lock", "delete", "insert", "done"}, next : Nat,
   archive : Copy, keep : BOOLEAN, loaded : Themes, gone : SUBSET Row,
   ids : IdMap, made : SUBSET Row]

TypesOK ==
  /\ group \in SUBSET Tables
  /\ rows \in SUBSET Row
  /\ entered \in SUBSET Row
  /\ theme \in Themes
  /\ files \in SUBSET Copy
  /\ request \in [Handlers -> Work]

Kept(R) == \A r \in R : r.table \in group
Unique(R) == \A r, s \in R : r.id = s.id => r = s

(* The tables: ids are unique and foreign keys hold, without the rows that *)
(* are still to be committed and with them.                                *)
DataOK(R, E) ==
  /\ Kept(R) /\ Kept(E)
  /\ Unique(R \cup E) /\ R \cap E = {}
  /\ \A r \in R : Holds(r, R)
  /\ \A r \in E : Holds(r, R \cup E)

(* The rows A that an export has read, some of them long ago, against the  *)
(* rows R there are: an id belongs to one table for ever.                  *)
Agrees(A, R) ==
  \A r \in A, p \in R :
    /\ r.id = p.id => r.table = p.table
    /\ r.ref = p.id => p.table \in References(r.table) /\ p.id # r.id

(* A torn archive may lack the row that another refers to, and nothing else. *)
Coherent(A) ==
  /\ Kept(A)
  /\ Unique(A)
  /\ \A r, p \in A : r.ref = p.id => p.table \in References(r.table) /\ p.id # r.id

FileOK(f) ==
  /\ Coherent(f.rows)
  /\ f.quiet => \A r \in f.rows : Holds(r, f.rows)

(* What a row refers to is in the archive and inserted before it. *)
Fits(A, r) ==
  \/ r.ref = NoId
  \/ \E p \in A : /\ p.id = r.ref
                  /\ \/ Place(p.table) < Place(r.table)
                     \/ p.table = r.table /\ p.id < r.id

Below(A, n) == {r \in A : Place(r.table) < n}
Above(A, n) == {r \in A : Place(r.table) > n}

ExportOK(q, R, E) ==
  /\ q.gone = {} /\ q.made = {} /\ q.ids = <<>>
  /\ q.next \in Nat \ {0}
  /\ Coherent(q.archive.rows)
  /\ Agrees(q.archive.rows, R \cup E)
  /\ \A r \in q.archive.rows : Place(r.table) < q.next
  /\ q.archive.quiet => q.archive.rows = Below(R, q.next)

Busy(q) == q.at \in {"delete", "insert", "done"}

ReplaceOK(q, R, E, F) ==
  /\ q.archive \in F
  /\ q.ids \in [IdsOf(q.archive.rows) -> Nat \ {0}]
  /\ \A i, j \in DOMAIN q.ids : q.ids[i] = q.ids[j] => i = j
  /\ \A i \in DOMAIN q.ids : \A r \in R \cup E : r.id # q.ids[i]
  /\ Busy(q) => E = {}
  /\ q.at = "lock" => q.gone = {} /\ q.made = {}
  /\ q.at = "delete" => q.gone = Above(R, q.next) /\ q.made = {}
  /\ q.at \in {"insert", "done"} =>
       /\ q.gone = R
       /\ q.made = {Renamed(q, r) : r \in Below(q.archive.rows, q.next)}
       /\ \A r \in Below(q.archive.rows, q.next) : Fits(q.archive.rows, r)
  /\ q.at = "done" => \A r \in q.archive.rows : Place(r.table) < q.next

RequestOK(q, R, E, F) ==
  /\ q.at = "idle" => q = NoWork
  /\ q.at = "export" => ExportOK(q, R, E)
  /\ q.at \notin {"idle", "export"} => ReplaceOK(q, R, E, F)

(* Two requests: one at most replaces, and the ids one has drawn are in    *)
(* nothing that another has drawn or read.                                 *)
Untold(p, q) ==
  q.at = "export" => \A i \in DOMAIN p.ids : \A r \in q.archive.rows :
                       r.id # p.ids[i] /\ r.ref # p.ids[i]
Apart(p, q) ==
  /\ ~(Busy(p) /\ Busy(q))
  /\ \A i \in DOMAIN p.ids, j \in DOMAIN q.ids : p.ids[i] # q.ids[j]
  /\ Untold(p, q)
  /\ Untold(q, p)

FilesOK == \A f \in files : FileOK(f)
RequestsOK == \A h \in Handlers : RequestOK(request[h], rows, entered, files)
PairsOK == \A h, k \in Handlers : h # k => Apart(request[h], request[k])
VerdictsOK ==
  /\ verdicts \subseteq files \X {"accepted", "refused"}
  /\ \A f \in files :
       /\ <<f, "accepted">> \in verdicts => \A r \in f.rows : Fits(f.rows, r)
       /\ <<f, "refused">> \in verdicts => \E r \in f.rows : ~Fits(f.rows, r)

BackInv ==
  /\ TypesOK
  /\ DataOK(rows, entered)
  /\ FilesOK
  /\ RequestsOK
  /\ PairsOK
  /\ VerdictsOK
--------------------------------------------------------------------------------
(* Helpers. *)

LEMMA GroupTables == BackupInit => group \in SUBSET Tables
BY BackupAssumption DEF BackupInit, Tables

LEMMA IdleWork ==
  /\ NoWork \in Work
  /\ NoWork.at = "idle"
  /\ NoWork.archive.rows = {}
  /\ NoWork.gone = {} /\ NoWork.made = {}
  /\ NoWork.ids = <<>>
  /\ DOMAIN NoWork.ids = {}
<1>1. <<>> \in [{} -> Nat \ {0}]
  OBVIOUS
<1>2. <<>> \in IdMap
  BY <1>1 DEF IdMap
<1>3. EmptyArchive \in Copy
  BY DEF EmptyArchive, Copy, Themes
<1>4. /\ NoWork \in Work
      /\ NoWork.at = "idle"
      /\ NoWork.archive.rows = {}
      /\ NoWork.gone = {} /\ NoWork.made = {}
      /\ NoWork.ids = <<>>
  BY <1>2, <1>3 DEF NoWork, Work, EmptyArchive, Themes
<1> QED
  BY <1>1, <1>4

(* The table at position i is the next one of the registry from n on. *)
LEMMA Upwards ==
  ASSUME group \in SUBSET Tables, NEW n \in Nat, NEW i \in From(n),
         NEW R \in SUBSET Row, Kept(R)
  PROVE  /\ i \in Nat /\ i >= n /\ i >= 1
         /\ Named(R, BACKUP_TABLES[i]) = {r \in R : Place(r.table) = i}
         /\ Below(R, i + 1) = Below(R, n) \cup Named(R, BACKUP_TABLES[i])
         /\ Below(R, n) = Below(R, i)
<1>1. /\ i \in 1 .. Len(BACKUP_TABLES) /\ i >= n
      /\ \A j \in Positions : j >= n => i <= j
  BY DEF From, Positions
<1>2. i \in Nat /\ i >= 1
  BY <1>1, RegistryOrder
<1>3. \A r \in R : /\ Place(r.table) \in Positions
                   /\ Place(r.table) \in Nat
                   /\ r.table = BACKUP_TABLES[Place(r.table)]
  BY RegistryOrder DEF Kept, Positions, Row
<1>4. Named(R, BACKUP_TABLES[i]) = {r \in R : Place(r.table) = i}
  BY <1>1, <1>3, RegistryOrder DEF Named
<1>5. \A r \in R : Place(r.table) < i <=> Place(r.table) < n
  BY <1>1, <1>2, <1>3
<1>6. \A r \in R : Place(r.table) < i + 1 <=> Place(r.table) < n \/ Place(r.table) = i
  BY <1>1, <1>2, <1>3, <1>5
<1> QED
  BY <1>1, <1>2, <1>4, <1>5, <1>6 DEF Below

LEMMA Downwards ==
  ASSUME group \in SUBSET Tables, NEW n \in Nat, NEW i \in Back(n),
         NEW R \in SUBSET Row, Kept(R)
  PROVE  /\ i \in Nat /\ i >= 1
         /\ Named(R, BACKUP_TABLES[i]) = {r \in R : Place(r.table) = i}
         /\ Above(R, i - 1) = Above(R, n) \cup Named(R, BACKUP_TABLES[i])
         /\ IsFirst(i) => Above(R, i - 1) = R
<1>1. /\ i \in 1 .. Len(BACKUP_TABLES) /\ i <= n
      /\ \A j \in Positions : j <= n => j <= i
  BY DEF Back, Positions
<1>2. i \in Nat /\ i >= 1
  BY <1>1, RegistryOrder
<1>3. \A r \in R : /\ Place(r.table) \in Positions
                   /\ Place(r.table) \in Nat
                   /\ r.table = BACKUP_TABLES[Place(r.table)]
  BY RegistryOrder DEF Kept, Positions, Row
<1>4. Named(R, BACKUP_TABLES[i]) = {r \in R : Place(r.table) = i}
  BY <1>1, <1>3, RegistryOrder DEF Named
<1>5. \A r \in R : Place(r.table) > i <=> Place(r.table) > n
  BY <1>1, <1>2, <1>3
<1>6. \A r \in R : Place(r.table) > i - 1 <=> Place(r.table) > n \/ Place(r.table) = i
  BY <1>1, <1>2, <1>3, <1>5
<1>7. IsFirst(i) => \A r \in R : Place(r.table) > i - 1
  BY <1>2, <1>3 DEF IsFirst
<1> QED
  BY <1>1, <1>2, <1>4, <1>6, <1>7 DEF Above

(* At either end of the registry. *)
LEMMA AllPlaces ==
  ASSUME group \in SUBSET Tables, NEW R \in SUBSET Row, Kept(R)
  PROVE  /\ \A n \in Nat \ {0} : IsLast(n - 1) => Below(R, n) = R
         /\ Above(R, Len(BACKUP_TABLES)) = {}
         /\ Below(R, 1) = {}
<1>1. \A r \in R : /\ Place(r.table) \in Positions
                   /\ Place(r.table) \in Nat
                   /\ Place(r.table) \in 1 .. Len(BACKUP_TABLES)
  BY RegistryOrder DEF Kept, Positions, Row
<1>2. ASSUME NEW n \in Nat \ {0}, IsLast(n - 1)
      PROVE  Below(R, n) = R
  BY <1>1, <1>2 DEF IsLast, Below
<1> QED
  BY <1>1, <1>2, RegistryOrder DEF Above, Below

(* A request moves on and the tables stay as they are. *)
LEMMA OwnStep ==
  ASSUME BackInv, NEW h \in Handlers, NEW q \in Work,
         request' = [request EXCEPT ![h] = q],
         UNCHANGED <<group, rows, theme, entered>>,
         files' \in SUBSET Copy, files \subseteq files',
         RequestOK(q, rows, entered, files'),
         \A k \in Handlers \ {h} : Apart(q, request[k])
  PROVE  TypesOK' /\ DataOK(rows, entered)' /\ RequestsOK' /\ PairsOK'
<1>1. /\ request' \in [Handlers -> Work]
      /\ request'[h] = q
      /\ \A k \in Handlers : k # h => request'[k] = request[k]
  BY DEF BackInv, TypesOK
<1>2. TypesOK'
  BY <1>1 DEF BackInv, TypesOK
<1>3. DataOK(rows, entered)'
  BY DEF BackInv, DataOK, Kept, Unique, Holds
<1>4. RequestsOK'
  <2> SUFFICES ASSUME NEW k \in Handlers
               PROVE  RequestOK(request'[k], rows', entered', files')
    BY DEF RequestsOK, RequestOK, ExportOK, ReplaceOK, Coherent, Agrees, Kept,
           Unique, Below, Above, Fits, Busy, Renamed, NewRef
  <2>1. CASE k = h
    BY <1>1, <2>1
  <2>2. CASE k # h
    <3>1. RequestOK(request[k], rows, entered, files)
      BY DEF BackInv, RequestsOK
    <3> QED
      BY <1>1, <2>2, <3>1 DEF RequestOK, ReplaceOK
  <2> QED
    BY <2>1, <2>2
<1>5. PairsOK'
  BY <1>1 DEF BackInv, PairsOK, Apart, Untold, Busy
<1> QED
  BY <1>2, <1>3, <1>4, <1>5
(* What every request holds, when the committed rows change under it and   *)
(* the requests of D, if any, end.                                         *)
LEMMA DataStep ==
  ASSUME BackInv, DataOK(rows', entered'), NEW D \in SUBSET Handlers,
         rows' \in SUBSET Row, entered' \in SUBSET Row, theme' \in Themes,
         request' = [k \in Handlers |-> IF k \in D THEN NoWork ELSE Disturbed[k]],
         UNCHANGED <<group, files>>,
         \A k \in Handlers \ D :
           LET q == request[k] IN
           /\ q.at = "export" => Agrees(q.archive.rows, rows' \cup entered')
           /\ q.at \notin {"idle", "export"} =>
                \A i \in DOMAIN q.ids : \A r \in rows' \cup entered' : r.id # q.ids[i]
           /\ Busy(q) => entered' = {}
           /\ q.at = "delete" => q.gone = Above(rows', q.next)
           /\ q.at \in {"insert", "done"} => q.gone = rows'
  PROVE  TypesOK' /\ DataOK(rows, entered)' /\ FilesOK' /\ RequestsOK' /\ PairsOK'
<1>1. /\ request' \in [Handlers -> Work]
      /\ \A k \in Handlers :
           /\ k \in D => request'[k] = NoWork
           /\ k \notin D /\ request[k].at # "export" => request'[k] = request[k]
           /\ k \notin D /\ request[k].at = "export" =>
                request'[k] = [request[k] EXCEPT !.archive = [@ EXCEPT !.quiet = FALSE]]
  <2>1. \A k \in Handlers : request[k] \in Work
    BY DEF BackInv, TypesOK
  <2>2. \A q \in Work : [q EXCEPT !.archive = [@ EXCEPT !.quiet = FALSE]] \in Work
    BY DEF Work, Copy
  <2> QED
    BY <2>1, <2>2, IdleWork DEF Disturbed
<1>2. \A k \in Handlers \ D :
        /\ request'[k].at = request[k].at
        /\ request'[k].ids = request[k].ids
        /\ request'[k].archive.rows = request[k].archive.rows
        /\ request'[k].next = request[k].next
        /\ request'[k].gone = request[k].gone
        /\ request'[k].made = request[k].made
        /\ request[k].at = "export" => request'[k].archive.quiet = FALSE
  <2> SUFFICES ASSUME NEW k \in Handlers \ D
               PROVE  /\ request'[k].at = request[k].at
                      /\ request'[k].ids = request[k].ids
                      /\ request'[k].archive.rows = request[k].archive.rows
                      /\ request'[k].next = request[k].next
                      /\ request'[k].gone = request[k].gone
                      /\ request'[k].made = request[k].made
                      /\ request[k].at = "export" => request'[k].archive.quiet = FALSE
    OBVIOUS
  <2>1. request[k] \in Work
    BY DEF BackInv, TypesOK
  <2>2. CASE request[k].at # "export"
    BY <1>1, <2>2
  <2>3. CASE request[k].at = "export"
    <3>1. PICK a : a = [request[k].archive EXCEPT !.quiet = FALSE]
      OBVIOUS
    <3>2. a.rows = request[k].archive.rows /\ a.quiet = FALSE
      BY <2>1, <3>1 DEF Work, Copy
    <3>3. request'[k] = [request[k] EXCEPT !.archive = a]
      BY <1>1, <2>3, <3>1
    <3> QED
      BY <2>1, <3>2, <3>3 DEF Work
  <2> QED
    BY <2>2, <2>3
<1>3. TypesOK'
  BY <1>1 DEF BackInv, TypesOK
<1>4. DataOK(rows, entered)'
  BY DEF DataOK, Kept, Unique, Holds
<1>5. FilesOK'
  BY DEF BackInv, FilesOK, FileOK, Coherent, Kept, Unique, Holds
<1>6. PairsOK'
  <2> SUFFICES ASSUME NEW h \in Handlers, NEW k \in Handlers, h # k
               PROVE  Apart(request'[h], request'[k])
    BY DEF PairsOK, Apart, Untold, Busy
  <2>1. CASE h \in D \/ k \in D
    BY <1>1, <2>1, IdleWork DEF Apart, Untold, Busy
  <2>2. CASE h \notin D /\ k \notin D
    BY <1>2, <2>2 DEF BackInv, PairsOK, Apart, Untold, Busy
  <2> QED
    BY <2>1, <2>2
<1>7. RequestsOK'
  <2> SUFFICES ASSUME NEW k \in Handlers
               PROVE  RequestOK(request'[k], rows', entered', files')
    BY DEF RequestsOK, RequestOK, ExportOK, ReplaceOK, Coherent, Agrees, Kept,
           Unique, Below, Above, Fits, Busy, Renamed, NewRef
  <2>1. RequestOK(request[k], rows, entered, files)
    BY DEF BackInv, RequestsOK
  <2>2. CASE k \in D
    BY <1>1, <2>2, IdleWork DEF RequestOK
  <2>3. CASE k \notin D /\ request[k].at = "export"
    <3>1. ExportOK(request[k], rows, entered)
      BY <2>1, <2>3 DEF RequestOK
    <3>2. ExportOK(request'[k], rows', entered')
      BY <1>2, <2>3, <3>1 DEF ExportOK
    <3> QED
      BY <1>2, <2>3, <3>2 DEF RequestOK
  <2>4. CASE k \notin D /\ request[k].at = "idle"
    BY <1>1, <2>1, <2>4 DEF RequestOK
  <2>5. CASE k \notin D /\ request[k].at \notin {"idle", "export"}
    <3>1. ReplaceOK(request[k], rows, entered, files)
      BY <2>1, <2>5 DEF RequestOK
    <3>2. request'[k] = request[k]
      BY <1>1, <2>5
    <3>3. ReplaceOK(request[k], rows', entered', files')
      BY <2>5, <3>1 DEF ReplaceOK
    <3> QED
      BY <2>5, <3>2, <3>3 DEF RequestOK
  <2> QED
    BY <2>2, <2>3, <2>4, <2>5
<1> QED
  BY <1>3, <1>4, <1>5, <1>6, <1>7

(* The user commits something. *)
LEMMA UserStep ==
  ASSUME BackInv, DataOK(rows', entered'),
         rows' \in SUBSET Row, entered' \in SUBSET Row, theme' \in Themes,
         request' = Disturbed, UNCHANGED <<group, files, verdicts>>,
         \A k \in Handlers :
           LET q == request[k] IN
           /\ q.at = "export" => Agrees(q.archive.rows, rows' \cup entered')
           /\ q.at \notin {"idle", "export"} =>
                \A i \in DOMAIN q.ids : \A r \in rows' \cup entered' : r.id # q.ids[i]
           /\ Busy(q) => entered' = {}
           /\ q.at = "delete" => q.gone = Above(rows', q.next)
           /\ q.at \in {"insert", "done"} => q.gone = rows'
  PROVE  BackInv'
<1>1. request' = [k \in Handlers |-> IF k \in {} THEN NoWork ELSE Disturbed[k]]
  BY DEF Disturbed
<1>2. TypesOK' /\ DataOK(rows, entered)' /\ FilesOK' /\ RequestsOK' /\ PairsOK'
  BY <1>1, DataStep
<1>3. VerdictsOK'
  BY DEF BackInv, VerdictsOK, Fits
<1> QED
  BY <1>2, <1>3 DEF BackInv

(* The committed rows stay, and so do the requests. *)
LEMMA EnteredStep ==
  ASSUME BackInv, DataOK(rows, entered'), entered' \in SUBSET Row,
         UNCHANGED <<group, rows, theme, files, request, verdicts>>,
         \A k \in Handlers :
           LET q == request[k] IN
           /\ q.at = "export" => Agrees(q.archive.rows, rows \cup entered')
           /\ q.at \notin {"idle", "export"} =>
                \A i \in DOMAIN q.ids : \A r \in rows \cup entered' : r.id # q.ids[i]
           /\ Busy(q) => entered' = {}
  PROVE  BackInv'
<1>1. TypesOK'
  BY DEF BackInv, TypesOK
<1>2. DataOK(rows, entered)'
  BY DEF DataOK, Kept, Unique, Holds
<1>3. FilesOK' /\ VerdictsOK'
  BY DEF BackInv, FilesOK, FileOK, Coherent, Kept, Unique, Holds, VerdictsOK, Fits
<1>4. PairsOK'
  BY DEF BackInv, PairsOK, Apart, Untold, Busy
<1>5. RequestsOK'
  <2> SUFFICES ASSUME NEW k \in Handlers
               PROVE  RequestOK(request[k], rows, entered', files)
    BY DEF RequestsOK, RequestOK, ExportOK, ReplaceOK, Coherent, Agrees, Kept,
           Unique, Below, Above, Fits, Busy, Renamed, NewRef
  <2>1. RequestOK(request[k], rows, entered, files)
    BY DEF BackInv, RequestsOK
  <2> QED
    BY <2>1 DEF RequestOK, ExportOK, ReplaceOK
<1> QED
  BY <1>1, <1>2, <1>3, <1>4, <1>5 DEF BackInv

(* A fresh id is nobody's. *)
LEMMA FreshId ==
  ASSUME NEW i \in FreshIds, BackInv
  PROVE  /\ i \in Nat \ {0}
         /\ \A r \in rows \cup entered : r.id # i
         /\ \A k \in Handlers : /\ \A r \in request[k].archive.rows : r.id # i /\ r.ref # i
                                /\ \A j \in DOMAIN request[k].ids : request[k].ids[j] # i
BY BackupAssumption DEF FreshIds, Ids, IdsOf, Mentioned, Reserved

LEMMA InsertKeeps == ASSUME BackInv, Insert PROVE BackInv'
<1>1. PICK t \in group : \E ref \in {NoId} \cup IdsOf(rows \cup entered) :
       LET r == RowOf(CHOOSE i \in FreshIds : TRUE, t, ref) IN
       /\ FreshIds # {}
       /\ Holds(r, rows \cup entered)
       /\ entered' = entered \cup {r}
  BY DEF Insert
<1>2. PICK ref \in {NoId} \cup IdsOf(rows \cup entered) :
       LET r == RowOf(CHOOSE i \in FreshIds : TRUE, t, ref) IN
       /\ FreshIds # {}
       /\ Holds(r, rows \cup entered)
       /\ entered' = entered \cup {r}
  BY <1>1
<1>3. PICK i \in FreshIds : /\ Holds(RowOf(i, t, ref), rows \cup entered)
                            /\ entered' = entered \cup {RowOf(i, t, ref)}
  BY <1>2
<1> DEFINE new == RowOf(i, t, ref)
<1>4. /\ new \in Row
      /\ new.id = i /\ new.table = t /\ new.ref = ref
  <2>1. t \in Tables
    BY DEF BackInv, TypesOK
  <2>2. ref \in Nat
    BY DEF IdsOf, NoId, BackInv, TypesOK, Row
  <2> QED
    BY <2>1, <2>2, FreshId DEF Row, RowOf
<1>5. entered' \in SUBSET Row
  BY <1>3, <1>4 DEF BackInv, TypesOK
<1>6. DataOK(rows, entered')
  <2>1. Kept(rows) /\ Kept(entered')
    BY <1>3, <1>4 DEF BackInv, DataOK, Kept
  <2>2. Unique(rows \cup entered') /\ rows \cap entered' = {}
    <3>1. \A r \in rows \cup entered : r.id # new.id
      BY <1>4, FreshId
    <3> HIDE DEF new
    <3> QED
      BY <1>3, <3>1 DEF BackInv, DataOK, Unique, new
  <2>3. \A r \in entered' : Holds(r, rows \cup entered')
    BY <1>3, <1>4 DEF BackInv, DataOK, Holds
  <2> QED
    BY <2>1, <2>2, <2>3 DEF BackInv, DataOK
<1>7. ASSUME NEW k \in Handlers
      PROVE  /\ request[k].at = "export" => Agrees(request[k].archive.rows, rows \cup entered')
             /\ request[k].at \notin {"idle", "export"} =>
                  \A j \in DOMAIN request[k].ids : \A r \in rows \cup entered' : r.id # request[k].ids[j]
             /\ ~Busy(request[k])
  <2>1. RequestOK(request[k], rows, entered, files)
    BY DEF BackInv, RequestsOK
  <2>2. ~Busy(request[k])
    BY DEF Insert, UserLocked, Replaces, Busy
  <2>3. CASE request[k].at = "export"
    <3>1. \A r \in request[k].archive.rows : r.id # new.id /\ r.ref # new.id
      BY <1>4, FreshId
    <3>2. Agrees(request[k].archive.rows, rows \cup entered)
      BY <2>1, <2>3 DEF RequestOK, ExportOK
    <3> HIDE DEF new
    <3>3. entered' = entered \cup {new}
      BY <1>3 DEF new
    <3> QED
      BY <2>3, <3>1, <3>2, <3>3, <2>2 DEF Agrees
  <2>4. CASE request[k].at \notin {"idle", "export"}
    <3>1. \A j \in DOMAIN request[k].ids : request[k].ids[j] # new.id
      BY <1>4, FreshId
    <3>2. \A j \in DOMAIN request[k].ids : \A r \in rows \cup entered : r.id # request[k].ids[j]
      BY <2>1, <2>4 DEF RequestOK, ReplaceOK
    <3> HIDE DEF new
    <3>3. entered' = entered \cup {new}
      BY <1>3 DEF new
    <3> QED
      BY <2>4, <3>1, <3>2, <3>3, <2>2
  <2> QED
    BY <2>2, <2>3, <2>4
<1>8. UNCHANGED <<group, rows, theme, files, request, verdicts>>
  BY DEF Insert
<1> QED
  BY <1>5, <1>6, <1>7, <1>8, EnteredStep

LEMMA RollBackInsertsKeeps == ASSUME BackInv, RollBackInserts PROVE BackInv'
<1>1. /\ entered' = {}
      /\ UNCHANGED <<group, rows, theme, files, request, verdicts>>
  BY DEF RollBackInserts
<1>2. DataOK(rows, entered')
  BY <1>1 DEF BackInv, DataOK, Kept, Unique
<1>3. ASSUME NEW k \in Handlers
      PROVE  /\ request[k].at = "export" => Agrees(request[k].archive.rows, rows \cup entered')
             /\ request[k].at \notin {"idle", "export"} =>
                  \A j \in DOMAIN request[k].ids : \A r \in rows \cup entered' : r.id # request[k].ids[j]
  <2>1. RequestOK(request[k], rows, entered, files)
    BY DEF BackInv, RequestsOK
  <2> QED
    BY <1>1, <2>1 DEF RequestOK, ExportOK, ReplaceOK, Agrees
<1> QED
  BY <1>1, <1>2, <1>3, EnteredStep
LEMMA CommitInsertsKeeps == ASSUME BackInv, CommitInserts PROVE BackInv'
<1>1. /\ entered # {} /\ rows' = rows \cup entered /\ entered' = {}
      /\ request' = Disturbed /\ UNCHANGED <<group, theme, files, verdicts>>
  BY DEF CommitInserts
<1>2. rows' \in SUBSET Row /\ entered' \in SUBSET Row /\ theme' \in Themes
  BY <1>1 DEF BackInv, TypesOK
<1>3. rows' \cup entered' = rows \cup entered
  BY <1>1
<1>4. DataOK(rows', entered')
  BY <1>1, <1>3 DEF BackInv, DataOK, Kept, Holds
<1>5. ASSUME NEW k \in Handlers
      PROVE  /\ request[k].at = "export" => Agrees(request[k].archive.rows, rows' \cup entered')
             /\ request[k].at \notin {"idle", "export"} =>
                  \A j \in DOMAIN request[k].ids :
                    \A r \in rows' \cup entered' : r.id # request[k].ids[j]
             /\ ~Busy(request[k])
  <2>1. RequestOK(request[k], rows, entered, files)
    BY DEF BackInv, RequestsOK
  <2> QED
    BY <1>1, <1>3, <2>1 DEF RequestOK, ExportOK, ReplaceOK, Busy
<1> QED
  BY <1>1, <1>2, <1>4, <1>5, UserStep DEF Busy

(* A row that a restore has not deleted yet changes or goes. *)
LEMMA NotGone ==
  ASSUME BackInv, NEW r \in rows, r \notin Gone, NEW k \in Handlers
  PROVE  /\ request[k].at = "delete" => ~(Place(r.table) > request[k].next)
         /\ request[k].at \notin {"insert", "done"}
<1>1. RequestOK(request[k], rows, entered, files)
  BY DEF BackInv, RequestsOK
<1>2. r \notin request[k].gone
  BY DEF Gone
<1> QED
  BY <1>1, <1>2 DEF RequestOK, ReplaceOK, Above

LEMMA DeleteRowKeeps ==
  ASSUME BackInv, NEW r \in rows, DeleteRow(r) PROVE BackInv'
<1>1. /\ r \notin Gone /\ rows' = rows \ {r} /\ entered' = entered
      /\ \A s \in rows \cup entered : s.ref # r.id
      /\ request' = Disturbed /\ UNCHANGED <<group, theme, files, verdicts>>
  BY DEF DeleteRow
<1>2. rows' \in SUBSET Row /\ entered' \in SUBSET Row /\ theme' \in Themes
  BY <1>1 DEF BackInv, TypesOK
<1>3. DataOK(rows', entered')
  BY <1>1 DEF BackInv, DataOK, Kept, Unique, Holds
<1>4. ASSUME NEW k \in Handlers
      PROVE  /\ request[k].at = "export" => Agrees(request[k].archive.rows, rows' \cup entered')
             /\ request[k].at \notin {"idle", "export"} =>
                  \A j \in DOMAIN request[k].ids :
                    \A s \in rows' \cup entered' : s.id # request[k].ids[j]
             /\ Busy(request[k]) => entered' = {}
             /\ request[k].at = "delete" => request[k].gone = Above(rows', request[k].next)
             /\ request[k].at \notin {"insert", "done"}
  <2>1. RequestOK(request[k], rows, entered, files)
    BY DEF BackInv, RequestsOK
  <2>2. CASE request[k].at = "export"
    BY <1>1, <2>1, <2>2 DEF RequestOK, ExportOK, Agrees, Busy
  <2>3. CASE request[k].at \notin {"idle", "export"}
    <3>1. ReplaceOK(request[k], rows, entered, files)
      BY <2>1, <2>3 DEF RequestOK
    <3>2. request[k].at = "delete" => Above(rows', request[k].next) = Above(rows, request[k].next)
      BY <1>1, NotGone DEF Above
    <3> QED
      BY <1>1, <2>3, <3>1, <3>2, NotGone DEF ReplaceOK
  <2> QED
    BY <2>2, <2>3 DEF Busy
<1> QED
  BY <1>1, <1>2, <1>3, <1>4, UserStep

LEMMA RepointKeeps ==
  ASSUME BackInv, NEW r \in rows, Repoint(r) PROVE BackInv'
<1>1. PICK ref \in {NoId} \cup IdsOf(rows \ Gone) :
        /\ Holds([r EXCEPT !.ref = ref], rows)
        /\ rows' = (rows \ {r}) \cup {[r EXCEPT !.ref = ref]}
  BY DEF Repoint
<1> DEFINE s == [r EXCEPT !.ref = ref]
<1>2. s \in Row /\ s.id = r.id /\ s.table = r.table
  <2>1. r \in Row /\ ref \in Nat
    BY DEF BackInv, TypesOK, IdsOf, Row, NoId
  <2> QED
    BY <2>1 DEF Row
<1>3. Holds(s, rows) /\ rows' = (rows \ {r}) \cup {s}
  BY <1>1
<1> HIDE DEF s
<1>4. /\ r \notin Gone /\ entered' = entered
      /\ request' = Disturbed /\ UNCHANGED <<group, theme, files, verdicts>>
  BY DEF Repoint
<1>5. rows' \in SUBSET Row /\ entered' \in SUBSET Row /\ theme' \in Themes
  BY <1>2, <1>3, <1>4 DEF BackInv, TypesOK
<1>6. DataOK(rows', entered')
  <2>1. Kept(rows') /\ Kept(entered')
    BY <1>2, <1>3, <1>4 DEF BackInv, DataOK, Kept
  <2>2. Unique(rows' \cup entered')
    <3>1. Unique(rows \cup entered)
      BY DEF BackInv, DataOK
    <3>2. \A x \in rows' \cup entered' : x = s \/ x \in (rows \cup entered) \ {r}
      BY <1>3, <1>4 DEF BackInv, DataOK
    <3>3. \A x \in rows \cup entered : x.id = s.id => x = r
      BY <1>2, <3>1 DEF Unique
    <3> QED
      BY <3>1, <3>2, <3>3 DEF Unique
  <2>3. rows' \cap entered' = {}
    BY <1>2, <1>3, <1>4 DEF BackInv, DataOK, Unique
  <2>4. \A x : Holds(x, rows) => Holds(x, rows')
    BY <1>2, <1>3 DEF Holds
  <2>5. \A x : Holds(x, rows \cup entered) => Holds(x, rows' \cup entered')
    BY <1>2, <1>3, <1>4 DEF Holds
  <2> QED
    BY <1>3, <1>4, <2>1, <2>2, <2>3, <2>4, <2>5 DEF BackInv, DataOK
<1>7. ASSUME NEW k \in Handlers
      PROVE  /\ request[k].at = "export" => Agrees(request[k].archive.rows, rows' \cup entered')
             /\ request[k].at \notin {"idle", "export"} =>
                  \A j \in DOMAIN request[k].ids :
                    \A x \in rows' \cup entered' : x.id # request[k].ids[j]
             /\ Busy(request[k]) => entered' = {}
             /\ request[k].at = "delete" => request[k].gone = Above(rows', request[k].next)
             /\ request[k].at \notin {"insert", "done"}
  <2>1. RequestOK(request[k], rows, entered, files)
    BY DEF BackInv, RequestsOK
  <2>2. CASE request[k].at = "export"
    BY <1>2, <1>3, <1>4, <2>1, <2>2 DEF RequestOK, ExportOK, Agrees, Busy
  <2>3. CASE request[k].at \notin {"idle", "export"}
    <3>1. ReplaceOK(request[k], rows, entered, files)
      BY <2>1, <2>3 DEF RequestOK
    <3>2. request[k].at = "delete" => Above(rows', request[k].next) = Above(rows, request[k].next)
      BY <1>2, <1>3, <1>4, NotGone DEF Above
    <3> QED
      BY <1>2, <1>3, <1>4, <2>3, <3>1, <3>2, NotGone DEF ReplaceOK
  <2> QED
    BY <2>2, <2>3 DEF Busy
<1> QED
  BY <1>4, <1>5, <1>6, <1>7, UserStep

LEMMA ChangeThemeKeeps == ASSUME BackInv, ChangeTheme PROVE BackInv'
<1>1. /\ rows' = rows /\ entered' = entered /\ theme' \in Themes
      /\ request' = Disturbed /\ UNCHANGED <<group, files, verdicts>>
  BY DEF ChangeTheme
<1>2. rows' \in SUBSET Row /\ entered' \in SUBSET Row
  BY <1>1 DEF BackInv, TypesOK
<1>3. DataOK(rows', entered')
  BY <1>1 DEF BackInv
<1>4. ASSUME NEW k \in Handlers
      PROVE  RequestOK(request[k], rows, entered, files)
  BY DEF BackInv, RequestsOK
<1> QED
  BY <1>1, <1>2, <1>3, <1>4, UserStep DEF RequestOK, ExportOK, ReplaceOK, Busy

(* A request ends and leaves the tables as they are. *)
LEMMA RestStep ==
  ASSUME BackInv, NEW h \in Handlers, request' = [request EXCEPT ![h] = NoWork],
         UNCHANGED <<group, rows, theme, entered>>,
         files' \in SUBSET Copy, files \subseteq files'
  PROVE  TypesOK' /\ DataOK(rows, entered)' /\ RequestsOK' /\ PairsOK'
<1>1. NoWork \in Work /\ RequestOK(NoWork, rows, entered, files')
  BY IdleWork DEF RequestOK
<1>2. \A k \in Handlers \ {h} : Apart(NoWork, request[k])
  BY IdleWork DEF Apart, Untold, Busy
<1> QED
  BY <1>1, <1>2, OwnStep

LEMMA LostKeeps ==
  ASSUME BackInv, NEW h \in Handlers, Lost(h) PROVE BackInv'
<1>1. /\ request' = [request EXCEPT ![h] = NoWork]
      /\ UNCHANGED <<group, rows, theme, entered, files, verdicts>>
  BY DEF Lost, Begun, dataVars
<1>2. TypesOK' /\ DataOK(rows, entered)' /\ RequestsOK' /\ PairsOK'
  BY <1>1, RestStep DEF BackInv, TypesOK
<1>3. FilesOK' /\ VerdictsOK'
  BY <1>1 DEF BackInv, FilesOK, FileOK, Coherent, Kept, Unique, Holds, VerdictsOK, Fits
<1> QED
  BY <1>2, <1>3 DEF BackInv
LEMMA StartExportKeeps ==
  ASSUME BackInv, NEW h \in Handlers, StartExport(h) PROVE BackInv'
<1> DEFINE q == [NoWork EXCEPT !.at = "export", !.next = 1, !.archive.theme = theme]
<1>1. /\ request' = [request EXCEPT ![h] = q]
      /\ UNCHANGED <<group, rows, theme, entered, files, verdicts>>
  BY DEF StartExport, Begun, dataVars
<1>2. /\ q \in Work /\ q.at = "export" /\ q.next = 1 /\ q.archive.rows = {}
      /\ q.gone = {} /\ q.made = {} /\ q.ids = <<>> /\ DOMAIN q.ids = {}
  BY IdleWork DEF Work, Copy, BackInv, TypesOK
<1> HIDE DEF q
<1>3. Below(rows, 1) = {}
  BY AllPlaces DEF BackInv, TypesOK, DataOK
<1>4. RequestOK(q, rows, entered, files')
  BY <1>2, <1>3 DEF RequestOK, ExportOK, Coherent, Kept, Unique, Agrees
<1>5. \A k \in Handlers \ {h} : Apart(q, request[k])
  BY <1>2 DEF Apart, Untold, Busy
<1>6. TypesOK' /\ DataOK(rows, entered)' /\ RequestsOK' /\ PairsOK'
  BY <1>1, <1>2, <1>4, <1>5, OwnStep DEF BackInv, TypesOK
<1>7. FilesOK' /\ VerdictsOK'
  BY <1>1 DEF BackInv, FilesOK, FileOK, Coherent, Kept, Unique, Holds, VerdictsOK, Fits
<1> QED
  BY <1>6, <1>7 DEF BackInv

LEMMA ReadTableKeeps ==
  ASSUME BackInv, NEW h \in Handlers, ReadTable(h) PROVE BackInv'
<1> DEFINE q == request[h]
<1>1. PICK i \in From(q.next) :
        request' = [request EXCEPT ![h] =
          [q EXCEPT !.next = i + 1,
                    !.archive.rows = @ \cup Named(rows, BACKUP_TABLES[i])]]
  BY DEF ReadTable, Begun
<1> DEFINE new == Named(rows, BACKUP_TABLES[i])
           p == [q EXCEPT !.next = i + 1, !.archive.rows = @ \cup new]
<1>2. q \in Work /\ q.at = "export" /\ ExportOK(q, rows, entered)
  BY DEF ReadTable, BackInv, TypesOK, RequestsOK, RequestOK
<1>3. /\ i \in Nat /\ i >= q.next /\ i >= 1
      /\ new = {r \in rows : Place(r.table) = i}
      /\ Below(rows, i + 1) = Below(rows, q.next) \cup new
  <2>1. q.next \in Nat
    BY <1>2 DEF Work
  <2>2. group \in SUBSET Tables /\ rows \in SUBSET Row /\ Kept(rows)
    BY DEF BackInv, TypesOK, DataOK
  <2> QED
    BY <2>1, <2>2, Upwards
<1>4. /\ p \in Work /\ p.at = "export" /\ p.next = i + 1
      /\ p.archive.rows = q.archive.rows \cup new
      /\ p.archive.quiet = q.archive.quiet
      /\ p.gone = q.gone /\ p.made = q.made /\ p.ids = q.ids
  <2>1. q.archive \in Copy /\ new \in SUBSET Row
    BY <1>2, <1>3 DEF Work, BackInv, TypesOK
  <2> DEFINE a == [q.archive EXCEPT !.rows = @ \cup new]
  <2>2. a \in Copy /\ a.rows = q.archive.rows \cup new /\ a.quiet = q.archive.quiet
    BY <2>1 DEF Copy
  <2>3. p = [q EXCEPT !.next = i + 1, !.archive = a]
    OBVIOUS
  <2>4. q \in Work /\ q.at = "export" /\ i + 1 \in Nat
    BY <1>2, <1>3
  <2> HIDE DEF q, p, new, a
  <2>5. /\ p \in Work /\ p.at = q.at /\ p.next = i + 1 /\ p.archive = a
        /\ p.gone = q.gone /\ p.made = q.made /\ p.ids = q.ids
    BY <2>2, <2>3, <2>4 DEF Work
  <2> QED
    BY <2>2, <2>4, <2>5
<1> HIDE DEF p, new
<1>5. Kept(rows) /\ Unique(rows \cup entered) /\ \A r \in rows : Holds(r, rows)
  BY DEF BackInv, DataOK
<1>6. /\ Coherent(q.archive.rows) /\ Agrees(q.archive.rows, rows \cup entered)
      /\ \A r \in q.archive.rows : Place(r.table) < q.next
  BY <1>2 DEF ExportOK
<1>7. \A r \in new : r \in rows /\ Place(r.table) = i
  BY <1>3
<1>8. \A r \in q.archive.rows, s \in new : r.id # s.id
  <2>1. q.next \in Nat
    BY <1>2 DEF Work
  <2> QED
    BY <1>3, <1>6, <1>7, <2>1 DEF Agrees
<1>9. \A r, s \in rows \cup entered : r.ref = s.id /\ r \in rows =>
         s.table \in References(r.table) /\ s.id # r.id
  <2> SUFFICES ASSUME NEW r \in rows, NEW s \in rows \cup entered, r.ref = s.id
               PROVE  s.table \in References(r.table) /\ s.id # r.id
    OBVIOUS
  <2>1. r.ref # NoId
    BY DEF BackInv, TypesOK, Row, NoId
  <2>2. PICK t \in rows : t.id = r.ref /\ t.id # r.id /\ t.table \in References(r.table)
    BY <1>5, <2>1 DEF Holds
  <2> QED
    BY <1>5, <2>2 DEF Unique
<1>10. Agrees(new, rows \cup entered)
  BY <1>5, <1>7, <1>9 DEF Agrees, Unique
<1>11. Agrees(p.archive.rows, rows \cup entered)
  BY <1>4, <1>6, <1>10 DEF Agrees
<1>12. Coherent(p.archive.rows)
  <2>1. Kept(p.archive.rows)
    BY <1>4, <1>5, <1>6, <1>7 DEF Kept, Coherent
  <2>2. Unique(p.archive.rows)
    BY <1>4, <1>5, <1>6, <1>7, <1>8 DEF Unique, Coherent
  <2>3. ASSUME NEW r \in p.archive.rows, NEW s \in p.archive.rows, r.ref = s.id
        PROVE  s.table \in References(r.table) /\ s.id # r.id
    <3>1. CASE s \in new
      BY <1>7, <1>11, <2>3, <3>1 DEF Agrees
    <3>2. CASE r \in q.archive.rows /\ s \in q.archive.rows
      BY <1>6, <2>3, <3>2 DEF Coherent
    <3>3. CASE r \in new /\ s \in q.archive.rows
      <4>1. r.ref # NoId
        BY <1>4, <2>3 DEF Work, Copy, Row, NoId
      <4>2. PICK t \in rows : t.id = r.ref /\ t.id # r.id /\ t.table \in References(r.table)
        BY <1>5, <1>7, <3>3, <4>1 DEF Holds
      <4>3. s.table = t.table
        BY <1>6, <2>3, <3>3, <4>2 DEF Agrees
      <4> QED
        BY <2>3, <4>2, <4>3
    <3> QED
      BY <1>4, <3>1, <3>2, <3>3
  <2> QED
    BY <2>1, <2>2, <2>3 DEF Coherent
<1>13. RequestOK(p, rows, entered, files)
  <2>1. \A r \in p.archive.rows : Place(r.table) < p.next
    <3>1. \A r \in q.archive.rows : Place(r.table) \in Nat
      BY <1>2, RegistryOrder DEF Work, Copy, Row
    <3> QED
      BY <1>2, <1>3, <1>4, <1>6, <1>7, <3>1 DEF Work
  <2>2. p.archive.quiet => p.archive.rows = Below(rows, p.next)
    BY <1>2, <1>3, <1>4 DEF ExportOK
  <2> QED
    BY <1>2, <1>3, <1>4, <1>11, <1>12, <2>1, <2>2 DEF RequestOK, ExportOK
<1>14. ASSUME NEW k \in Handlers \ {h}
       PROVE  Apart(p, request[k])
  <2>1. Apart(q, request[k]) /\ RequestOK(request[k], rows, entered, files)
    BY DEF BackInv, PairsOK, RequestsOK
  <2>2. DOMAIN p.ids = {}
    BY <1>2, <1>4 DEF ExportOK
  <2>3. \A j \in DOMAIN request[k].ids : \A r \in rows : r.id # request[k].ids[j]
    BY <2>1, IdleWork DEF RequestOK, ExportOK, ReplaceOK
  <2>4. \A j \in DOMAIN request[k].ids : \A r \in rows : r.ref # request[k].ids[j]
    <3> SUFFICES ASSUME NEW j \in DOMAIN request[k].ids, NEW r \in rows
                 PROVE  r.ref # request[k].ids[j]
      OBVIOUS
    <3>1. CASE r.ref = NoId
      <4>1. request[k].ids[j] # 0
        BY <2>1, IdleWork DEF RequestOK, ExportOK, ReplaceOK
      <4> QED
        BY <3>1, <4>1 DEF NoId
    <3>2. CASE r.ref # NoId
      BY <1>5, <2>3, <3>2 DEF Holds
    <3> QED
      BY <3>1, <3>2
  <2> QED
    BY <1>2, <1>4, <1>7, <2>1, <2>2, <2>3, <2>4 DEF Apart, Untold, Busy
<1>15. UNCHANGED <<group, rows, theme, entered, files, verdicts>>
  BY DEF ReadTable, dataVars
<1>16. request' = [request EXCEPT ![h] = p]
  BY <1>1 DEF p, new
<1>17. TypesOK' /\ DataOK(rows, entered)' /\ RequestsOK' /\ PairsOK'
  BY <1>4, <1>13, <1>14, <1>15, <1>16, OwnStep DEF BackInv, TypesOK
<1>18. FilesOK' /\ VerdictsOK'
  BY <1>15 DEF BackInv, FilesOK, FileOK, Coherent, Kept, Unique, Holds, VerdictsOK, Fits
<1> QED
  BY <1>17, <1>18 DEF BackInv
LEMMA DownloadKeeps ==
  ASSUME BackInv, NEW h \in Handlers, Download(h) PROVE BackInv'
<1> DEFINE q == request[h]
           f == q.archive
<1>1. /\ q.at = "export" /\ IsLast(q.next - 1)
      /\ files' = files \cup {f}
      /\ request' = [request EXCEPT ![h] = NoWork]
      /\ UNCHANGED <<group, rows, theme, entered, verdicts>>
  BY DEF Download, Begun, dataVars
<1>2. /\ q \in Work /\ f \in Copy /\ ExportOK(q, rows, entered)
  BY <1>1 DEF BackInv, TypesOK, RequestsOK, RequestOK, Work
<1>3. Below(rows, q.next) = rows
  <2>1. group \in SUBSET Tables /\ rows \in SUBSET Row /\ Kept(rows) /\ q.next \in Nat \ {0}
    BY <1>2 DEF BackInv, TypesOK, DataOK, ExportOK
  <2> QED
    BY <1>1, <2>1, AllPlaces
<1>4. FileOK(f)
  BY <1>2, <1>3 DEF ExportOK, FileOK, BackInv, DataOK
<1> HIDE DEF f, q
<1>5. FilesOK'
  <2>1. \A g \in files' : FileOK(g)
    BY <1>1, <1>4 DEF BackInv, FilesOK
  <2> QED
    BY <1>1, <2>1 DEF FilesOK, FileOK, Coherent, Kept, Unique, Holds
<1>6. TypesOK' /\ DataOK(rows, entered)' /\ RequestsOK' /\ PairsOK'
  BY <1>1, <1>2, RestStep DEF BackInv, TypesOK
<1>7. VerdictsOK'
  <2>1. verdicts' \subseteq files' \X {"accepted", "refused"}
    BY <1>1 DEF BackInv, VerdictsOK
  <2> SUFFICES ASSUME NEW g \in files'
               PROVE  /\ <<g, "accepted">> \in verdicts => \A r \in g.rows : Fits(g.rows, r)
                      /\ <<g, "refused">> \in verdicts => \E r \in g.rows : ~Fits(g.rows, r)
    BY <1>1, <2>1 DEF VerdictsOK, Fits
  <2>2. CASE g \in files
    BY <2>2 DEF BackInv, VerdictsOK
  <2>3. CASE g \notin files
    <3>1. <<g, "accepted">> \notin verdicts /\ <<g, "refused">> \notin verdicts
      BY <2>3 DEF BackInv, VerdictsOK
    <3> QED
      BY <3>1
  <2> QED
    BY <2>2, <2>3
<1> QED
  BY <1>5, <1>6, <1>7 DEF BackInv

LEMMA StartReplaceKeeps ==
  ASSUME BackInv, NEW h \in Handlers, NEW keep \in BOOLEAN, StartReplace(h, keep)
  PROVE  BackInv'
<1>1. PICK f \in files : \E m \in NewIds(f.rows) :
        request' = [request EXCEPT ![h] =
          [NoWork EXCEPT !.at = "lock", !.keep = keep, !.archive = f,
                         !.loaded = theme, !.ids = m]]
  BY DEF StartReplace, Begun
<1>2. PICK m \in NewIds(f.rows) :
        request' = [request EXCEPT ![h] =
          [NoWork EXCEPT !.at = "lock", !.keep = keep, !.archive = f,
                         !.loaded = theme, !.ids = m]]
  BY <1>1
<1> DEFINE q == [NoWork EXCEPT !.at = "lock", !.keep = keep, !.archive = f,
                               !.loaded = theme, !.ids = m]
<1>3. f \in Copy /\ theme \in Themes
  BY DEF BackInv, TypesOK
<1>4. /\ m \in [IdsOf(f.rows) -> FreshIds]
      /\ \A i, j \in DOMAIN m : m[i] = m[j] => i = j
  BY DEF NewIds
<1>5. /\ \A i \in DOMAIN m : /\ m[i] \in Nat \ {0}
                             /\ \A r \in rows \cup entered : r.id # m[i]
      /\ \A k \in Handlers : \A i \in DOMAIN m :
           /\ \A r \in request[k].archive.rows : r.id # m[i] /\ r.ref # m[i]
           /\ \A j \in DOMAIN request[k].ids : request[k].ids[j] # m[i]
  BY <1>4, FreshId
<1>6. m \in [IdsOf(f.rows) -> Nat \ {0}]
  BY <1>4, <1>5
<1>7. m \in IdMap
  <2>1. IdsOf(f.rows) \in SUBSET Nat
    BY <1>3 DEF IdsOf, Copy, Row
  <2> QED
    BY <1>6, <2>1 DEF IdMap
<1>8. /\ q \in Work /\ q.at = "lock" /\ q.archive = f /\ q.ids = m
      /\ q.gone = {} /\ q.made = {}
  BY <1>3, <1>7, IdleWork DEF Work
<1> HIDE DEF q
<1>9. RequestOK(q, rows, entered, files)
  BY <1>4, <1>5, <1>6, <1>8 DEF RequestOK, ReplaceOK, Busy
<1>10. ASSUME NEW k \in Handlers \ {h}
       PROVE  Apart(q, request[k])
  BY <1>5, <1>8 DEF Apart, Untold, Busy
<1>11. UNCHANGED <<group, rows, theme, entered, files, verdicts>>
  BY DEF StartReplace, dataVars
<1>12. request' = [request EXCEPT ![h] = q]
  BY <1>2 DEF q
<1>13. TypesOK' /\ DataOK(rows, entered)' /\ RequestsOK' /\ PairsOK'
  BY <1>8, <1>9, <1>10, <1>11, <1>12, OwnStep DEF BackInv, TypesOK
<1>14. FilesOK' /\ VerdictsOK'
  BY <1>11 DEF BackInv, FilesOK, FileOK, Coherent, Kept, Unique, Holds, VerdictsOK, Fits
<1> QED
  BY <1>13, <1>14 DEF BackInv

LEMMA LockUserKeeps ==
  ASSUME BackInv, NEW h \in Handlers, LockUser(h) PROVE BackInv'
<1> DEFINE q == request[h]
           p == [q EXCEPT !.at = "delete", !.next = Len(BACKUP_TABLES)]
<1>1. /\ q.at = "lock" /\ entered = {} /\ ~UserLocked
      /\ request' = [request EXCEPT ![h] = p]
      /\ UNCHANGED <<group, rows, theme, entered, files, verdicts>>
  BY DEF LockUser, Begun, dataVars
<1>2. q \in Work /\ ReplaceOK(q, rows, entered, files)
  BY <1>1 DEF BackInv, TypesOK, RequestsOK, RequestOK
<1>3. /\ p \in Work /\ p.at = "delete" /\ p.next = Len(BACKUP_TABLES)
      /\ p.archive = q.archive /\ p.ids = q.ids /\ p.gone = q.gone /\ p.made = q.made
  <2> HIDE DEF q
  <2> QED
    BY <1>2, RegistryOrder DEF Work
<1> HIDE DEF p
<1>4. Above(rows, Len(BACKUP_TABLES)) = {}
  <2>1. group \in SUBSET Tables /\ rows \in SUBSET Row /\ Kept(rows)
    BY DEF BackInv, TypesOK, DataOK
  <2> QED
    BY <2>1, AllPlaces
<1>5. RequestOK(p, rows, entered, files)
  BY <1>1, <1>2, <1>3, <1>4 DEF RequestOK, ReplaceOK, Busy
<1>6. ASSUME NEW k \in Handlers \ {h}
      PROVE  Apart(p, request[k])
  <2>1. Apart(q, request[k]) /\ ~Busy(request[k])
    BY <1>1 DEF BackInv, PairsOK, UserLocked, Replaces, Busy
  <2> QED
    BY <1>1, <1>3, <2>1 DEF Apart, Untold
<1>7. TypesOK' /\ DataOK(rows, entered)' /\ RequestsOK' /\ PairsOK'
  BY <1>1, <1>3, <1>5, <1>6, OwnStep DEF BackInv, TypesOK
<1>8. FilesOK' /\ VerdictsOK'
  BY <1>1 DEF BackInv, FilesOK, FileOK, Coherent, Kept, Unique, Holds, VerdictsOK, Fits
<1> QED
  BY <1>7, <1>8 DEF BackInv
(* No table is deleted before the tables that refer to it. *)
LEMMA DeleteTableKeeps ==
  ASSUME BackInv, NEW h \in Handlers, DeleteTable(h) PROVE BackInv'
<1> DEFINE q == request[h]
<1>1. PICK i \in Back(q.next) :
        IF \A r \in rows \ (q.gone \cup Named(rows, BACKUP_TABLES[i])) :
             r.ref \notin IdsOf(q.gone \cup Named(rows, BACKUP_TABLES[i]))
        THEN Begun(h, IF IsFirst(i)
                      THEN [q EXCEPT !.at = "insert", !.next = 1,
                                     !.gone = q.gone \cup Named(rows, BACKUP_TABLES[i])]
                      ELSE [q EXCEPT !.next = i - 1,
                                     !.gone = q.gone \cup Named(rows, BACKUP_TABLES[i])])
             /\ UNCHANGED verdicts
        ELSE Refuse(h)
  BY DEF DeleteTable
<1>2. q.at = "delete" /\ UNCHANGED <<group, rows, theme, entered, files>>
  BY DEF DeleteTable, dataVars
<1>3. q \in Work /\ ReplaceOK(q, rows, entered, files)
  BY <1>2 DEF BackInv, TypesOK, RequestsOK, RequestOK
<1>4. group \in SUBSET Tables /\ rows \in SUBSET Row /\ DataOK(rows, entered)
  BY DEF BackInv, TypesOK
<1>5. q.next \in Nat /\ i \in Back(q.next)
  BY <1>3 DEF Work
<1> DEFINE out == q.gone \cup Named(rows, BACKUP_TABLES[i])
<1>6. /\ i \in Nat /\ i >= 1
      /\ out = Above(rows, i - 1)
      /\ IsFirst(i) => out = rows
  <2>1. q.gone = Above(rows, q.next)
    BY <1>2, <1>3 DEF ReplaceOK
  <2>2. Kept(rows)
    BY <1>4 DEF DataOK
  <2> QED
    BY <1>4, <1>5, <2>1, <2>2, Downwards
<1>7. \A r \in rows \ out : r.ref \notin IdsOf(out)
  <2> SUFFICES ASSUME NEW r \in rows, NEW p \in out, r.ref = p.id
               PROVE  r \in out
    BY DEF IdsOf
  <2>1. p \in rows /\ Place(p.table) > i - 1
    BY <1>6 DEF Above
  <2>2. r.ref # NoId
    BY <1>4, <2>1 DEF Row, NoId
  <2>3. PICK s \in rows : s.id = r.ref /\ s.table \in References(r.table)
    BY <1>4, <2>2 DEF DataOK, Holds
  <2>4. s = p
    BY <1>4, <2>1, <2>3 DEF DataOK, Unique
  <2>5. /\ Place(p.table) <= Place(r.table)
        /\ Place(p.table) \in Nat /\ Place(r.table) \in Nat
    BY <1>4, <2>1, <2>3, <2>4, RegistryOrder DEF Row
  <2> QED
    BY <1>6, <2>1, <2>5 DEF Above
<1> DEFINE p == IF IsFirst(i) THEN [q EXCEPT !.at = "insert", !.next = 1, !.gone = out]
                              ELSE [q EXCEPT !.next = i - 1, !.gone = out]
<1>8. request' = [request EXCEPT ![h] = p] /\ UNCHANGED verdicts
  BY <1>1, <1>7 DEF Begun
<1>9. out \in SUBSET Row /\ i - 1 \in Nat
  BY <1>4, <1>6 DEF Above
<1> HIDE DEF q, out
<1>10. /\ p \in Work /\ p.gone = out
       /\ p.archive = q.archive /\ p.ids = q.ids /\ p.made = q.made
       /\ IF IsFirst(i) THEN p.at = "insert" /\ p.next = 1
                        ELSE p.at = "delete" /\ p.next = i - 1
  BY <1>2, <1>3, <1>9 DEF Work
<1> HIDE DEF p
<1>11. RequestOK(p, rows, entered, files)
  <2>1. CASE ~IsFirst(i)
    BY <1>2, <1>3, <1>6, <1>10, <2>1 DEF RequestOK, ReplaceOK, Busy
  <2>2. CASE IsFirst(i)
    <3>1. Below(p.archive.rows, p.next) = {}
      <4>1. p.archive.rows \in SUBSET Row /\ Kept(p.archive.rows)
        BY <1>3, <1>10 DEF ReplaceOK, BackInv, TypesOK, FilesOK, FileOK, Coherent, Copy
      <4> QED
        BY <1>4, <1>10, <2>2, <4>1, AllPlaces
    <3>2. {Renamed(p, r) : r \in Below(p.archive.rows, p.next)} = {}
      BY <3>1
    <3> QED
      BY <1>2, <1>3, <1>6, <1>10, <2>2, <3>1, <3>2 DEF RequestOK, ReplaceOK, Busy
  <2> QED
    BY <2>1, <2>2
<1>12. ASSUME NEW k \in Handlers \ {h}
       PROVE  Apart(p, request[k])
  <2>1. Apart(q, request[k])
    BY DEF BackInv, PairsOK, q
  <2> QED
    BY <1>2, <1>10, <2>1 DEF Apart, Untold, Busy
<1>13. TypesOK' /\ DataOK(rows, entered)' /\ RequestsOK' /\ PairsOK'
  BY <1>2, <1>8, <1>10, <1>11, <1>12, OwnStep DEF BackInv, TypesOK
<1>14. FilesOK' /\ VerdictsOK'
  BY <1>2, <1>8 DEF BackInv, FilesOK, FileOK, Coherent, Kept, Unique, Holds, VerdictsOK, Fits
<1> QED
  BY <1>13, <1>14 DEF BackInv

(* A verdict is passed. *)
LEMMA VerdictStep ==
  ASSUME BackInv, NEW f \in files, NEW v \in {"accepted", "refused"},
         verdicts' = verdicts \cup {<<f, v>>}, UNCHANGED <<group, files>>,
         v = "accepted" => \A r \in f.rows : Fits(f.rows, r),
         v = "refused" => \E r \in f.rows : ~Fits(f.rows, r)
  PROVE  FilesOK' /\ VerdictsOK'
<1>1. FilesOK'
  BY DEF BackInv, FilesOK, FileOK, Coherent, Kept, Unique, Holds
<1>2. verdicts' \subseteq files' \X {"accepted", "refused"}
  BY DEF BackInv, VerdictsOK
<1>3. \A g \in files : \A w \in {"accepted", "refused"} :
         <<g, w>> \in verdicts' => <<g, w>> \in verdicts \/ (g = f /\ w = v)
  OBVIOUS
<1>4. VerdictsOK'
  BY <1>2, <1>3 DEF BackInv, VerdictsOK, Fits
<1> QED
  BY <1>1, <1>4
LEMMA InsertTableKeeps ==
  ASSUME BackInv, NEW h \in Handlers, InsertTable(h) PROVE BackInv'
<1> DEFINE q == request[h]
           A == q.archive.rows
<1>1. PICK i \in From(q.next) :
        IF \A r \in Named(A, BACKUP_TABLES[i]) : Mapped(q, r) /\ InsertedBefore(q, r)
        THEN /\ Begun(h, [q EXCEPT !.next = i + 1,
                     !.made = q.made \cup {Renamed(q, r) : r \in Named(A, BACKUP_TABLES[i])},
                     !.at = IF IsLast(i) THEN "done" ELSE "insert"])
             /\ UNCHANGED verdicts
        ELSE Refuse(h)
  BY DEF InsertTable
<1>2. q.at = "insert" /\ UNCHANGED <<group, rows, theme, entered, files>>
  BY DEF InsertTable, dataVars
<1>3. q \in Work /\ ReplaceOK(q, rows, entered, files)
  BY <1>2 DEF BackInv, TypesOK, RequestsOK, RequestOK
<1>4. group \in SUBSET Tables /\ A \in SUBSET Row /\ Coherent(A)
  BY <1>3 DEF ReplaceOK, BackInv, TypesOK, FilesOK, FileOK, Copy
<1>5. q.next \in Nat /\ i \in From(q.next)
  BY <1>3 DEF Work
<1> DEFINE new == Named(A, BACKUP_TABLES[i])
<1>6. /\ i \in Nat /\ i >= 1
      /\ new = {r \in A : Place(r.table) = i}
      /\ Below(A, i + 1) = Below(A, q.next) \cup new
      /\ Below(A, q.next) = Below(A, i)
  <2>1. Kept(A)
    BY <1>4 DEF Coherent
  <2> HIDE DEF A, q
  <2> QED
    BY <1>4, <1>5, <2>1, Upwards
<1>7. /\ q.ids \in [IdsOf(A) -> Nat \ {0}]
      /\ \A j, k \in DOMAIN q.ids : q.ids[j] = q.ids[k] => j = k
      /\ q.made = {Renamed(q, r) : r \in Below(A, q.next)}
      /\ \A r \in Below(A, q.next) : Fits(A, r)
      /\ q.gone = rows /\ entered = {} /\ q.archive \in files
      /\ \A j \in DOMAIN q.ids : \A r \in rows \cup entered : r.id # q.ids[j]
  BY <1>2, <1>3 DEF ReplaceOK, Busy
<1> HIDE DEF new, A, q
<1>8. \A r \in new : Mapped(q, r) /\ InsertedBefore(q, r) <=> Fits(A, r)
  <2> SUFFICES ASSUME NEW r \in new
               PROVE  Mapped(q, r) /\ InsertedBefore(q, r) <=> Fits(A, r)
    OBVIOUS
  <2>1. r \in A /\ Place(r.table) = i
    BY <1>6
  <2>2. CASE r.ref = NoId
    BY <2>2 DEF Mapped, InsertedBefore, Fits
  <2>3. CASE r.ref # NoId
    <3>1. Mapped(q, r) <=> r.ref \in IdsOf(A)
      BY <1>7, <2>3 DEF Mapped
    <3>2. ASSUME r.ref \in IdsOf(A)
          PROVE  NewRef(q, r.ref) \in IdsOf(q.made) <=>
                   \E p \in A : p.id = r.ref /\ Place(p.table) < Place(r.table)
      <4>1. IdsOf(q.made) = {q.ids[p.id] : p \in Below(A, i)}
        <5>1. \A p : Renamed(q, p).id = q.ids[p.id]
          BY DEF Renamed, RowOf
        <5>2. q.made = {Renamed(q, p) : p \in Below(A, i)}
          BY <1>6, <1>7
        <5> QED
          BY <5>1, <5>2 DEF IdsOf
      <4>2. NewRef(q, r.ref) = q.ids[r.ref]
        BY <2>3 DEF NewRef
      <4>3. \A p \in A : p.id \in DOMAIN q.ids
        BY <1>7 DEF IdsOf
      <4>4. r.ref \in DOMAIN q.ids
        BY <1>7, <3>2
      <4>5. \A p \in A : q.ids[p.id] = q.ids[r.ref] <=> p.id = r.ref
        BY <1>7, <4>3, <4>4
      <4> QED
        BY <2>1, <4>1, <4>2, <4>5 DEF Below
    <3>3. Fits(A, r) => r.ref \in IdsOf(A)
      BY <2>3 DEF Fits, IdsOf
    <3>4. (\E p \in A : p.table = r.table /\ p.id = r.ref /\ p.id < r.id) => r.ref \in IdsOf(A)
      BY DEF IdsOf
    <3> QED
      BY <2>3, <3>1, <3>2, <3>3 DEF InsertedBefore, Fits, A
  <2> QED
    BY <2>2, <2>3
<1>9. CASE \E r \in new : ~(Mapped(q, r) /\ InsertedBefore(q, r))
  <2>1. /\ verdicts' = verdicts \cup {<<q.archive, "refused">>}
        /\ request' = [request EXCEPT ![h] = NoWork]
    BY <1>1, <1>9 DEF Refuse, Begun, q, new
  <2>2. \E r \in q.archive.rows : ~Fits(q.archive.rows, r)
    BY <1>6, <1>8, <1>9 DEF A
  <2>3. FilesOK' /\ VerdictsOK'
    BY <1>2, <1>7, <2>1, <2>2, VerdictStep
  <2>4. TypesOK' /\ DataOK(rows, entered)' /\ RequestsOK' /\ PairsOK'
    BY <1>2, <2>1, RestStep DEF BackInv, TypesOK
  <2> QED
    BY <2>3, <2>4 DEF BackInv
<1>10. CASE \A r \in new : Mapped(q, r) /\ InsertedBefore(q, r)
  <2> DEFINE p == [q EXCEPT !.next = i + 1,
                            !.made = q.made \cup {Renamed(q, r) : r \in new},
                            !.at = IF IsLast(i) THEN "done" ELSE "insert"]
  <2>1. request' = [request EXCEPT ![h] = p] /\ UNCHANGED verdicts
    BY <1>1, <1>10 DEF Begun, q, new
  <2>2. {Renamed(q, r) : r \in new} \in SUBSET Row
    <3> SUFFICES ASSUME NEW r \in new
                 PROVE  Renamed(q, r) \in Row
      OBVIOUS
    <3>1. r \in A /\ r \in Row
      BY <1>4, <1>6
    <3>2. r.id \in DOMAIN q.ids
      BY <1>7, <3>1 DEF IdsOf
    <3>3. q.ids[r.id] \in Nat \ {0}
      BY <1>7, <3>2
    <3>4. NewRef(q, r.ref) \in Nat
      BY <1>7, <1>10 DEF NewRef, Mapped, NoId
    <3> QED
      BY <3>1, <3>3, <3>4 DEF Renamed, RowOf, Row
  <2>3. /\ p \in Work /\ p.next = i + 1 /\ p.archive = q.archive
        /\ p.made = q.made \cup {Renamed(q, r) : r \in new}
        /\ p.at = IF IsLast(i) THEN "done" ELSE "insert"
        /\ p.ids = q.ids /\ p.gone = q.gone
    <3>1. i + 1 \in Nat /\ q.made \cup {Renamed(q, r) : r \in new} \in SUBSET Row
      BY <1>3, <1>6, <2>2 DEF Work
    <3> QED
      BY <1>3, <3>1 DEF Work
  <2> HIDE DEF p
  <2>4. p.made = {Renamed(p, r) : r \in Below(p.archive.rows, p.next)}
    BY <1>6, <1>7, <2>3 DEF Renamed, NewRef, A
  <2>5. \A r \in Below(p.archive.rows, p.next) : Fits(p.archive.rows, r)
    BY <1>6, <1>7, <1>8, <1>10, <2>3 DEF A
  <2>6. p.at = "done" => \A r \in p.archive.rows : Place(r.table) < p.next
    <3> HAVE p.at = "done"
    <3>1. IsLast(i)
      BY <2>3
    <3>2. i + 1 \in Nat \ {0} /\ (i + 1) - 1 = i
      BY <1>6
    <3>3. Below(A, i + 1) = A
      BY <1>4, <3>1, <3>2, AllPlaces DEF Coherent
    <3> QED
      BY <2>3, <3>3 DEF Below, A
  <2>7. RequestOK(p, rows, entered, files)
    BY <1>2, <1>7, <2>3, <2>4, <2>5, <2>6 DEF RequestOK, ReplaceOK, Busy, A
  <2>8. ASSUME NEW k \in Handlers \ {h}
        PROVE  Apart(p, request[k])
    <3>1. Apart(q, request[k])
      BY DEF BackInv, PairsOK, q
    <3> QED
      BY <1>2, <2>3, <3>1 DEF Apart, Untold, Busy
  <2>9. TypesOK' /\ DataOK(rows, entered)' /\ RequestsOK' /\ PairsOK'
    BY <1>2, <2>1, <2>3, <2>7, <2>8, OwnStep DEF BackInv, TypesOK
  <2>10. FilesOK' /\ VerdictsOK'
    BY <1>2, <2>1 DEF BackInv, FilesOK, FileOK, Coherent, Kept, Unique, Holds, VerdictsOK, Fits
  <2> QED
    BY <2>9, <2>10 DEF BackInv
<1> QED
  BY <1>9, <1>10

(* Whoever has inserted the last table has inserted the whole archive, and *)
(* the rows that were there are all gone.                                  *)
LEMMA AllReplaced ==
  ASSUME BackInv, NEW h \in Handlers, request[h].at = "done"
  PROVE  LET q == request[h] IN
         /\ q.archive \in files /\ q.archive \in Copy /\ Coherent(q.archive.rows)
         /\ \A r \in q.archive.rows : Fits(q.archive.rows, r)
         /\ q.made = {Renamed(q, r) : r \in q.archive.rows}
         /\ (rows \ q.gone) \cup q.made = {Renamed(q, r) : r \in q.archive.rows}
         /\ entered = {}
<1> DEFINE q == request[h]
<1>1. ReplaceOK(q, rows, entered, files)
  BY DEF BackInv, RequestsOK, RequestOK
<1>2. Below(q.archive.rows, q.next) = q.archive.rows
  BY <1>1 DEF ReplaceOK, Below
<1>3. q.archive \in files /\ q.archive \in Copy /\ Coherent(q.archive.rows)
  BY <1>1 DEF ReplaceOK, BackInv, TypesOK, FilesOK, FileOK
<1> QED
  BY <1>1, <1>2, <1>3 DEF ReplaceOK, Busy

LEMMA EndPreviewKeeps ==
  ASSUME BackInv, NEW h \in Handlers, EndPreview(h) PROVE BackInv'
<1>1. /\ request[h].at = "done"
      /\ verdicts' = verdicts \cup {<<request[h].archive, "accepted">>}
      /\ request' = [request EXCEPT ![h] = NoWork]
      /\ UNCHANGED <<group, rows, theme, entered, files>>
  BY DEF EndPreview, Accept, Begun, dataVars
<1>2. TypesOK' /\ DataOK(rows, entered)' /\ RequestsOK' /\ PairsOK'
  BY <1>1, RestStep DEF BackInv, TypesOK
<1>3. FilesOK' /\ VerdictsOK'
  BY <1>1, AllReplaced, VerdictStep
<1> QED
  BY <1>2, <1>3 DEF BackInv
LEMMA CommitRestoreKeeps ==
  ASSUME BackInv, NEW h \in Handlers, CommitRestore(h) PROVE BackInv'
<1> DEFINE q == request[h]
           A == q.archive.rows
<1>1. /\ q.at = "done"
      /\ rows' = (rows \ q.gone) \cup q.made
      /\ theme' = IF q.archive.theme # q.loaded THEN q.archive.theme ELSE theme
      /\ verdicts' = verdicts \cup {<<q.archive, "accepted">>}
      /\ request' = [Disturbed EXCEPT ![h] = NoWork]
      /\ UNCHANGED <<group, entered, files>>
  BY DEF CommitRestore
<1>2. q \in Work /\ ReplaceOK(q, rows, entered, files)
  BY <1>1 DEF BackInv, TypesOK, RequestsOK, RequestOK
<1>3. /\ q.archive \in files /\ q.archive \in Copy /\ Coherent(A)
      /\ \A r \in A : Fits(A, r)
      /\ rows' = {Renamed(q, r) : r \in A} /\ rows' = q.made
      /\ entered = {}
  <2>1. LET p == request[h] IN
         /\ p.archive \in files /\ p.archive \in Copy /\ Coherent(p.archive.rows)
         /\ \A r \in p.archive.rows : Fits(p.archive.rows, r)
         /\ p.made = {Renamed(p, r) : r \in p.archive.rows}
         /\ (rows \ p.gone) \cup p.made = {Renamed(p, r) : r \in p.archive.rows}
         /\ entered = {}
    BY <1>1, AllReplaced
  <2> QED
    BY <1>1, <2>1
<1>4. /\ q.ids \in [IdsOf(A) -> Nat \ {0}]
      /\ \A i, j \in DOMAIN q.ids : q.ids[i] = q.ids[j] => i = j
  BY <1>2 DEF ReplaceOK
<1>5. A \in SUBSET Row /\ q.archive.theme \in Themes
  BY <1>3 DEF Copy
<1>6. \A k \in Handlers \ {h} : Apart(q, request[k])
  BY DEF BackInv, PairsOK
<1>7. rows' \in SUBSET Row /\ entered' \in SUBSET Row /\ theme' \in Themes
  BY <1>1, <1>2, <1>3, <1>5 DEF BackInv, TypesOK, Work
<1> HIDE DEF q, A
<1>8. \A r \in A : /\ r.id \in DOMAIN q.ids
                   /\ Renamed(q, r).id = q.ids[r.id]
                   /\ Renamed(q, r).table = r.table
                   /\ Renamed(q, r).ref = NewRef(q, r.ref)
  BY <1>4 DEF IdsOf, Renamed, RowOf
<1>9. \A s \in rows' : \E i \in DOMAIN q.ids : s.id = q.ids[i]
  BY <1>3, <1>8
<1>10. DataOK(rows', entered')
  <2>1. Kept(rows') /\ Kept(entered')
    BY <1>1, <1>3, <1>8 DEF Kept, Coherent
  <2>2. Unique(rows' \cup entered') /\ rows' \cap entered' = {}
    BY <1>1, <1>3, <1>4, <1>8 DEF Unique, Coherent
  <2>3. ASSUME NEW r \in A
        PROVE  Holds(Renamed(q, r), rows')
    <3>1. CASE r.ref = NoId
      BY <1>8, <3>1 DEF Holds, NewRef
    <3>2. CASE r.ref # NoId
      <4>1. PICK p \in A : p.id = r.ref
        BY <1>3, <3>2 DEF Fits
      <4>2. p.table \in References(r.table) /\ p.id # r.id
        BY <1>3, <4>1 DEF Coherent
      <4>3. Renamed(q, p) \in rows'
        BY <1>3
      <4>4. /\ Renamed(q, p).id = Renamed(q, r).ref
            /\ Renamed(q, p).id # Renamed(q, r).id
        BY <1>4, <1>8, <3>2, <4>1, <4>2 DEF NewRef
      <4> QED
        BY <1>8, <4>2, <4>3, <4>4 DEF Holds
    <3> QED
      BY <3>1, <3>2
  <2> QED
    BY <1>1, <1>3, <2>1, <2>2, <2>3 DEF DataOK
<1>11. request' = [k \in Handlers |-> IF k \in {h} THEN NoWork ELSE Disturbed[k]]
  BY <1>1 DEF Disturbed
<1>12. ASSUME NEW k \in Handlers \ {h}
       PROVE  /\ request[k].at = "export" => Agrees(request[k].archive.rows, rows' \cup entered')
              /\ request[k].at \notin {"idle", "export"} =>
                   \A j \in DOMAIN request[k].ids :
                     \A r \in rows' \cup entered' : r.id # request[k].ids[j]
              /\ ~Busy(request[k])
  <2>1. Apart(q, request[k])
    BY <1>6
  <2>2. ~Busy(request[k])
    BY <1>1, <2>1 DEF Apart, Busy
  <2>3. request[k].at = "export" => Agrees(request[k].archive.rows, rows' \cup entered')
    BY <1>1, <1>3, <1>9, <2>1 DEF Apart, Untold, Agrees
  <2>4. \A j \in DOMAIN request[k].ids : \A r \in rows' \cup entered' : r.id # request[k].ids[j]
    BY <1>1, <1>3, <1>9, <2>1 DEF Apart
  <2> QED
    BY <2>2, <2>3, <2>4
<1>13. TypesOK' /\ DataOK(rows, entered)' /\ FilesOK' /\ RequestsOK' /\ PairsOK'
  BY <1>1, <1>7, <1>10, <1>11, <1>12, DataStep DEF Busy
<1>14. VerdictsOK'
  BY <1>1, <1>3, VerdictStep DEF A
<1> QED
  BY <1>13, <1>14 DEF BackInv

LEMMA BackupStarts == BackupInit => BackInv
<1> SUFFICES ASSUME BackupInit PROVE BackInv
  OBVIOUS
<1>1. /\ rows \in PossibleRows(group) /\ theme = "light" /\ entered = {} /\ files = {}
      /\ request = [h \in Handlers |-> NoWork] /\ verdicts = {}
  BY DEF BackupInit
<1>2. group \in SUBSET Tables
  BY GroupTables
<1> DEFINE Some == {RowOf(i, t, ref) : i \in 1 .. 2, t \in group, ref \in {1, 2, NoId}}
<1>3. /\ rows \in {{}} \cup {{r, s} : r, s \in Some}
      /\ \A r, s \in rows : r.id = s.id => r = s
      /\ \A r \in rows : Holds(r, rows)
  BY <1>1 DEF PossibleRows
<1>4. \A r \in rows : r \in Some
  BY <1>3
<1>5. \A r \in Some : r \in Row /\ r.table \in group
  BY <1>2 DEF RowOf, Row, NoId
<1>6. TypesOK
  BY <1>1, <1>2, <1>4, <1>5, IdleWork DEF TypesOK, Themes
<1>7. DataOK(rows, entered)
  BY <1>1, <1>3, <1>4, <1>5 DEF DataOK, Kept, Unique
<1>8. RequestsOK /\ PairsOK
  BY <1>1, IdleWork DEF RequestsOK, RequestOK, PairsOK, Apart, Untold, Busy
<1>9. FilesOK /\ VerdictsOK
  BY <1>1 DEF FilesOK, VerdictsOK
<1> QED
  BY <1>6, <1>7, <1>8, <1>9 DEF BackInv

LEMMA BackupStepHolds == BackInv /\ [BackupNext]_backupVars => BackInv'
<1> SUFFICES ASSUME BackInv, [BackupNext]_backupVars PROVE BackInv'
  OBVIOUS
<1>1. CASE UNCHANGED backupVars
  BY <1>1 DEF backupVars, BackInv, TypesOK, DataOK, Kept, Unique, Holds, FilesOK, FileOK,
     Coherent, RequestsOK, RequestOK, ExportOK, ReplaceOK, Agrees, Below, Above, Fits, Busy,
     Renamed, NewRef, PairsOK, Apart, Untold, VerdictsOK
<1>2. ASSUME NEW h \in Handlers, BackupStep(h) PROVE BackInv'
  BY <1>2, StartExportKeeps, ReadTableKeeps, DownloadKeeps, StartReplaceKeeps, LockUserKeeps,
     DeleteTableKeeps, InsertTableKeeps, EndPreviewKeeps, CommitRestoreKeeps, LostKeeps
     DEF BackupStep
<1>3. ASSUME NEW r \in rows, DeleteRow(r) \/ Repoint(r) PROVE BackInv'
  BY <1>3, DeleteRowKeeps, RepointKeeps
<1> QED
  BY <1>1, <1>2, <1>3, InsertKeeps, CommitInsertsKeeps, RollBackInsertsKeeps, ChangeThemeKeeps
     DEF BackupNext

(* preview_backup and restore_backup give one answer about an archive,     *)
(* whatever data it would replace and whoever writes meanwhile, and a good *)
(* one about an archive that was read while nothing was written, unless a  *)
(* row of it sorts before the row of its own table that it refers to.      *)
THEOREM VerdictsStaySound == BackupSpec => []VerdictsAreSound
<1>1. BackInv => VerdictsAreSound
  <2> SUFFICES ASSUME BackInv, NEW f \in files
               PROVE  /\ ~ {<<f, "accepted">>, <<f, "refused">>} \subseteq verdicts
                      /\ <<f, "refused">> \in verdicts => ~f.quiet \/ RefersAhead(f)
    BY DEF VerdictsAreSound, OneVerdict, QuietIsAccepted
  <2>1. ~ {<<f, "accepted">>, <<f, "refused">>} \subseteq verdicts
    BY DEF BackInv, VerdictsOK
  <2>2. ASSUME <<f, "refused">> \in verdicts, f.quiet, ~RefersAhead(f)
        PROVE  FALSE
    <3>1. f \in Copy /\ FileOK(f)
      BY DEF BackInv, TypesOK, FilesOK
    <3>2. PICK r \in f.rows : ~Fits(f.rows, r)
      BY <2>2 DEF BackInv, VerdictsOK
    <3>3. PICK p \in f.rows : /\ p.id = r.ref /\ p.id # r.id
                              /\ p.table \in References(r.table)
      BY <2>2, <3>1, <3>2 DEF FileOK, Holds, Fits
    <3>4. r \in Row /\ p \in Row
      BY <3>1 DEF Copy
    <3>5. /\ Place(p.table) \in Nat /\ Place(r.table) \in Nat
          /\ Place(p.table) <= Place(r.table)
          /\ Place(p.table) = Place(r.table) => p.table = r.table
      BY <3>3, <3>4, RegistryOrder DEF Row
    <3>6. p.table = r.table => p.id < r.id
      BY <2>2, <3>3, <3>4 DEF RefersAhead, Row
    <3> QED
      BY <3>2, <3>3, <3>5, <3>6 DEF Fits
  <2> QED
    BY <2>1, <2>2
<1> QED
  BY <1>1, BackupStarts, BackupStepHolds, PTL DEF BackupSpec

(* _replace: a restore that commits leaves exactly the rows of its archive *)
(* under new ids, with their references, however many tables and rows there*)
(* are and whatever the user and other restores do while it runs, and a    *)
(* preview leaves nothing.                                                 *)
THEOREM RestoresAreExact == BackupSpec => RestoreIsExact
<1> DEFINE Exact(h) ==
      LET q == request[h] IN
      (q.at = "done" /\ request'[h].at = "idle" /\ <<rows, theme>>' # <<rows, theme>>) =>
        /\ q.keep
        /\ rows' = {Renamed(q, r) : r \in q.archive.rows}
        /\ q.loaded = theme => theme' = q.archive.theme
<1>1. ASSUME BackInv, [BackupNext]_backupVars, NEW h \in Handlers
      PROVE  Exact(h)
  <2> SUFFICES ASSUME request[h].at = "done", request'[h].at = "idle",
                      <<rows, theme>>' # <<rows, theme>>
               PROVE  /\ request[h].keep
                      /\ rows' = {Renamed(request[h], r) : r \in request[h].archive.rows}
                      /\ request[h].loaded = theme => theme' = request[h].archive.theme
    OBVIOUS
  <2>1. request' # request /\ request' # Disturbed
    BY DEF Disturbed
  <2>2. ~(Insert \/ CommitInserts \/ RollBackInserts \/ ChangeTheme)
    BY <2>1 DEF Insert, CommitInserts, RollBackInserts, ChangeTheme
  <2>3. \A r \in rows : ~(DeleteRow(r) \/ Repoint(r))
    BY <2>1 DEF DeleteRow, Repoint
  <2>4. PICK k \in Handlers : BackupStep(k)
    BY <1>1, <2>1, <2>2, <2>3 DEF BackupNext, backupVars
  <2>5. CommitRestore(k)
    BY <2>4 DEF BackupStep, StartExport, ReadTable, Download, StartReplace, LockUser,
       DeleteTable, InsertTable, EndPreview, Lost, dataVars
  <2>6. k = h
    BY <2>5 DEF CommitRestore, Disturbed
  <2>7. (rows \ request[h].gone) \cup request[h].made
          = {Renamed(request[h], r) : r \in request[h].archive.rows}
    BY <1>1, AllReplaced
  <2> QED
    BY <2>5, <2>6, <2>7 DEF CommitRestore
<1>2. BackInv /\ [BackupNext]_backupVars => \A h \in Handlers : Exact(h)
  BY <1>1
<1>3. BackInv /\ [BackupNext]_backupVars => [\A h \in Handlers : Exact(h)]_backupVars
  BY <1>2
<1> QED
  BY <1>3, BackupStarts, BackupStepHolds, PTL DEF BackupSpec, RestoreIsExact

--------------------------------------------------------------------------------
(* Sums over finite sets. *)

LEMMA LeastExists ==
  ASSUME NEW S \in SUBSET Nat, S # {}
  PROVE  \E i \in S : \A j \in S : i <= j
<1> DEFINE Less == {p \in Nat \X Nat : p[1] < p[2]}
<1>1. IsWellFoundedOn(Less, Nat)
  BY NatLessThanWellFounded, Zenon DEF OpToRel
<1>2. \A x, y \in Nat : y < x => <<y, x>> \in Less
  OBVIOUS
<1> HIDE DEF Less
<1>3. PICK x \in S : \A y \in S : ~ (<<y, x>> \in Less)
  BY <1>1, WFMin, Zenon
<1>4. \A y \in S : ~(y < x)
  BY <1>2, <1>3, Zenon
<1>5. x \in Nat /\ \A y \in S : y \in Nat
  OBVIOUS
<1> QED
  BY <1>4, <1>5

LEMMA LeastIs ==
  ASSUME NEW S \in SUBSET Nat, S # {}
  PROVE  Min(S) \in S /\ \A j \in S : Min(S) <= j
<1>1. PICK i \in S : \A j \in S : i <= j
  BY LeastExists
<1> QED
  BY <1>1, Zenon DEF Min

(* A bounded set of natural numbers has a largest one. *)
LEMMA LargestIs ==
  ASSUME NEW S \in SUBSET Nat, S # {}, NEW n \in Nat, \A i \in S : i <= n
  PROVE  Max(S) \in S /\ \A i \in S : i <= Max(S)
<1> DEFINE T == {k \in 0 .. n : n - k \in S}
<1>1. PICK i \in S : TRUE
  OBVIOUS
<1>2. i \in Nat /\ i <= n /\ n - (n - i) = i
  OBVIOUS
<1>3. n - i \in T /\ T \in SUBSET Nat
  BY <1>2
<1>4. PICK k \in T : \A j \in T : k <= j
  BY <1>3, LeastExists
<1>5. n - k \in S /\ k \in Nat /\ k <= n
  BY <1>4
<1>6. ASSUME NEW j \in S PROVE n - k >= j
  <2>1. j \in Nat /\ j <= n /\ n - (n - j) = j
    OBVIOUS
  <2>2. n - j \in T
    BY <2>1
  <2>3. k <= n - j
    BY <1>4, <2>2
  <2> QED
    BY <1>5, <2>1, <2>3
<1>7. Max(S) \in S /\ \A j \in S : Max(S) >= j
  BY <1>5, <1>6, Zenon DEF Max
<1> QED
  BY <1>7

(* What SumFunctionOnSet takes out first. *)
Pick(s) == CHOOSE x \in s : TRUE

(* it sums f over the subsets of a family that is closed under leaving out  *)
(* the element picked.                                                      *)
Unfolds(f, family, it) ==
  it = [s \in family |-> IF s = {} THEN 0 ELSE f[Pick(s)] + it[s \ {Pick(s)}]]

Subsets(S, n) == {s \in SUBSET S : Cardinality(s) <= n}

(* SumFunctionOnSet is the choice of a function over all subsets.           *)
LEMMA SumIsChosen ==
  ASSUME NEW f, NEW S
  PROVE  SumFunctionOnSet(f, S) = (CHOOSE it : Unfolds(f, SUBSET S, it))[S]
BY Zenon DEF SumFunctionOnSet, FoldFunctionOnSet, MapThenFoldSet, Unfolds, Pick

LEMMA PickOne ==
  ASSUME NEW S, IsFiniteSet(S), NEW s \in SUBSET S, s # {}
  PROVE  /\ Pick(s) \in s /\ s \ {Pick(s)} \in SUBSET S
         /\ IsFiniteSet(s) /\ Cardinality(s) \in Nat \ {0}
         /\ IsFiniteSet(s \ {Pick(s)})
         /\ Cardinality(s \ {Pick(s)}) = Cardinality(s) - 1
<1>1. Pick(s) \in s
  BY DEF Pick
<1>2. IsFiniteSet(s) /\ Cardinality(s) \in Nat
  BY FS_Subset, FS_CardinalityType
<1>3. Cardinality(s) # 0
  BY <1>1, <1>2, FS_EmptySet
<1>4. Cardinality(s \ {Pick(s)}) = Cardinality(s) - 1 /\ IsFiniteSet(s \ {Pick(s)})
  BY <1>1, <1>2, FS_RemoveElement
<1> QED
  BY <1>1, <1>2, <1>3, <1>4

(* There is such a function, and only one.                                  *)
LEMMA UnfoldsExists ==
  ASSUME NEW f, NEW S, IsFiniteSet(S)
  PROVE  \E it : Unfolds(f, SUBSET S, it)
<1> DEFINE Bad == {n \in Nat : ~\E g : Unfolds(f, Subsets(S, n), g)}
<1>1. Bad = {}
  <2> SUFFICES ASSUME Bad # {} PROVE FALSE
    OBVIOUS
  <2>1. Bad \in SUBSET Nat
    OBVIOUS
  <2>2. PICK n \in Bad : \A k \in Bad : n <= k
    BY <2>1, LeastExists
  <2>3. CASE n = 0
    <3> DEFINE g == [s \in Subsets(S, 0) |-> 0]
    <3>1. ASSUME NEW s \in Subsets(S, 0) PROVE s = {}
      <4>1. s \in SUBSET S /\ Cardinality(s) <= 0
        BY DEF Subsets
      <4>2. s # {} => Cardinality(s) \in Nat \ {0}
        BY <4>1, PickOne, Zenon
      <4> QED
        BY <4>1, <4>2
    <3>2. Unfolds(f, Subsets(S, 0), g)
      BY <3>1 DEF Unfolds
    <3> QED
      BY <2>2, <2>3, <3>2
  <2>4. CASE n # 0
    <3>1. n - 1 \in Nat /\ n - 1 \notin Bad /\ n \in Nat
      BY <2>2, <2>4
    <3>2. PICK g : Unfolds(f, Subsets(S, n - 1), g)
      BY <3>1
    <3> DEFINE h == [s \in Subsets(S, n) |->
                       IF s = {} THEN 0 ELSE f[Pick(s)] + g[s \ {Pick(s)}]]
    <3>3. ASSUME NEW s \in Subsets(S, n), s # {} PROVE s \ {Pick(s)} \in Subsets(S, n - 1)
      <4>1. s \in SUBSET S /\ Cardinality(s) <= n
        BY DEF Subsets
      <4>2. /\ s \ {Pick(s)} \in SUBSET S /\ Cardinality(s) \in Nat
            /\ Cardinality(s \ {Pick(s)}) = Cardinality(s) - 1
        BY <3>3, <4>1, PickOne, Zenon
      <4> QED
        BY <3>1, <4>1, <4>2 DEF Subsets
    <3>4. \A s \in Subsets(S, n - 1) : s \in Subsets(S, n)
      <4> SUFFICES ASSUME NEW s \in Subsets(S, n - 1) PROVE s \in Subsets(S, n)
        OBVIOUS
      <4>1. Cardinality(s) \in Nat
        BY FS_Subset, FS_CardinalityType DEF Subsets
      <4> QED
        BY <3>1, <4>1 DEF Subsets
    <3>5. \A s \in Subsets(S, n - 1) : h[s] = g[s]
      <4>1. \A s \in Subsets(S, n - 1) :
              g[s] = IF s = {} THEN 0 ELSE f[Pick(s)] + g[s \ {Pick(s)}]
        BY <3>2 DEF Unfolds
      <4> QED
        BY <3>4, <4>1
    <3>6. \A s \in Subsets(S, n) : s # {} => h[s \ {Pick(s)}] = g[s \ {Pick(s)}]
      BY <3>3, <3>5
    <3>7. h = [s \in Subsets(S, n) |-> IF s = {} THEN 0 ELSE f[Pick(s)] + h[s \ {Pick(s)}]]
      BY <3>6
    <3> QED
      BY <2>2, <3>7 DEF Unfolds
  <2> QED
    BY <2>3, <2>4
<1>2. Cardinality(S) \in Nat
  BY FS_CardinalityType
<1>3. Subsets(S, Cardinality(S)) = SUBSET S
  BY FS_Subset DEF Subsets
<1>4. \A n \in Nat : \E g : Unfolds(f, Subsets(S, n), g)
  BY <1>1
<1> QED
  BY <1>2, <1>3, <1>4

(* Two sums agree where both are defined. *)
LEMMA UnfoldsUnique ==
  ASSUME NEW f, NEW S, IsFiniteSet(S), NEW T \in SUBSET S, NEW it, NEW jt,
         Unfolds(f, SUBSET S, it), Unfolds(f, SUBSET T, jt)
  PROVE  it[T] = jt[T]
<1> DEFINE Bad == {n \in Nat : \E s \in SUBSET T : Cardinality(s) = n /\ it[s] # jt[s]}
<1>1. IsFiniteSet(T)
  BY FS_Subset
<1>2. \A s \in SUBSET T : /\ it[s] = IF s = {} THEN 0 ELSE f[Pick(s)] + it[s \ {Pick(s)}]
                          /\ jt[s] = IF s = {} THEN 0 ELSE f[Pick(s)] + jt[s \ {Pick(s)}]
  BY DEF Unfolds
<1>3. ASSUME Bad # {} PROVE FALSE
  <2>1. Bad \in SUBSET Nat
    OBVIOUS
  <2>2. PICK n \in Bad : \A k \in Bad : n <= k
    BY <1>3, <2>1, LeastExists
  <2>3. PICK s \in SUBSET T : Cardinality(s) = n /\ it[s] # jt[s]
    BY <2>2
  <2>4. s # {}
    BY <1>2, <2>3
  <2>5. /\ s \ {Pick(s)} \in SUBSET T /\ Cardinality(s \ {Pick(s)}) = n - 1
        /\ n \in Nat \ {0}
    BY <1>1, <2>3, <2>4, PickOne
  <2>6. it[s \ {Pick(s)}] # jt[s \ {Pick(s)}]
    BY <1>2, <2>3, <2>4
  <2>7. n - 1 \in Bad
    BY <2>5, <2>6
  <2> QED
    BY <2>2, <2>5, <2>7
<1>4. Cardinality(T) \in Nat /\ Cardinality(T) \notin Bad
  BY <1>1, <1>3, FS_CardinalityType
<1> QED
  BY <1>4

(* What the sum of a finite set is.                                         *)
LEMMA SumUnfolds ==
  ASSUME NEW f, NEW S, IsFiniteSet(S)
  PROVE  /\ SumFunctionOnSet(f, {}) = 0
         /\ S # {} => SumFunctionOnSet(f, S) = f[Pick(S)] + SumFunctionOnSet(f, S \ {Pick(S)})
<1> DEFINE I(U) == CHOOSE it : Unfolds(f, SUBSET U, it)
<1>1. ASSUME NEW U, IsFiniteSet(U)
      PROVE  Unfolds(f, SUBSET U, I(U))
  BY <1>1, UnfoldsExists, Zenon
<1>2. ASSUME NEW U
      PROVE  SumFunctionOnSet(f, U) = I(U)[U]
  BY SumIsChosen, Zenon
<1> HIDE DEF I
<1>3. SumFunctionOnSet(f, {}) = 0
  <2>1. Unfolds(f, SUBSET {}, I({}))
    BY <1>1, FS_EmptySet
  <2>2. I({})[{}] = 0
    BY <2>1 DEF Unfolds
  <2> QED
    BY <1>2, <2>2
<1>4. ASSUME S # {}
      PROVE  SumFunctionOnSet(f, S) = f[Pick(S)] + SumFunctionOnSet(f, S \ {Pick(S)})
  <2> DEFINE T == S \ {Pick(S)}
  <2>1. T \in SUBSET S /\ IsFiniteSet(T)
    BY <1>4, PickOne
  <2>2. Unfolds(f, SUBSET S, I(S)) /\ Unfolds(f, SUBSET T, I(T))
    BY <1>1, <2>1
  <2>3. I(S)[T] = I(T)[T]
    <3>1. \A U, it, jt : U \in SUBSET S /\ Unfolds(f, SUBSET S, it) /\ Unfolds(f, SUBSET U, jt)
                           => it[U] = jt[U]
      BY UnfoldsUnique
    <3> QED
      BY <2>1, <2>2, <3>1, Zenon
  <2>4. I(S)[S] = f[Pick(S)] + I(S)[T]
    BY <1>4, <2>2 DEF Unfolds
  <2> QED
    BY <1>2, <2>3, <2>4
<1> QED
  BY <1>3, <1>4
(* Sums of integers are integers; any element may be taken out first, or    *)
(* added last; larger summands, or more that are not negative, make no      *)
(* smaller a sum; equal ones make an equal sum.                             *)
LEMMA SumType ==
  ASSUME NEW f, NEW S, IsFiniteSet(S), \A x \in S : f[x] \in Int
  PROVE  SumFunctionOnSet(f, S) \in Int
<1> DEFINE Bad == {n \in Nat : \E s \in SUBSET S : Cardinality(s) = n /\ SumFunctionOnSet(f, s) \notin Int}
<1>1. ASSUME Bad # {} PROVE FALSE
  <2>1. Bad \in SUBSET Nat
    OBVIOUS
  <2>2. PICK n \in Bad : \A k \in Bad : n <= k
    BY <1>1, <2>1, LeastExists
  <2>3. PICK s \in SUBSET S : Cardinality(s) = n /\ SumFunctionOnSet(f, s) \notin Int
    BY <2>2
  <2>4. IsFiniteSet(s)
    BY FS_Subset
  <2>5. s # {} /\ SumFunctionOnSet(f, s) = f[Pick(s)] + SumFunctionOnSet(f, s \ {Pick(s)})
    BY <2>3, <2>4, SumUnfolds
  <2>6. /\ Pick(s) \in S /\ s \ {Pick(s)} \in SUBSET S
        /\ Cardinality(s \ {Pick(s)}) = n - 1 /\ n \in Nat \ {0}
    BY <2>3, <2>5, PickOne
  <2>7. n - 1 \in Nat \ Bad
    <3>1. n \in Nat \ {0} /\ \A k \in Bad : n <= k
      BY <2>2, <2>6
    <3> HIDE DEF Bad
    <3> QED
      BY <3>1
  <2>8. SumFunctionOnSet(f, s \ {Pick(s)}) \in Int
    BY <2>6, <2>7
  <2> QED
    BY <2>3, <2>5, <2>6, <2>8
<1>2. Cardinality(S) \in Nat \ Bad
  BY <1>1, FS_CardinalityType
<1> QED
  BY <1>2

(* A sum is what any one element adds to the sum of the others. *)
LEMMA SumSplit ==
  ASSUME NEW f, NEW S, IsFiniteSet(S), \A y \in S : f[y] \in Int, NEW x \in S
  PROVE  SumFunctionOnSet(f, S) = f[x] + SumFunctionOnSet(f, S \ {x})
<1> DEFINE Splits(s, z) == SumFunctionOnSet(f, s) = f[z] + SumFunctionOnSet(f, s \ {z})
           Bad == {n \in Nat : \E s \in SUBSET S : Cardinality(s) = n /\ \E z \in s : ~Splits(s, z)}
<1>1. \A s \in SUBSET S : /\ IsFiniteSet(s) /\ Cardinality(s) \in Nat
                          /\ SumFunctionOnSet(f, s) \in Int
  <2> SUFFICES ASSUME NEW s \in SUBSET S
               PROVE  /\ IsFiniteSet(s) /\ Cardinality(s) \in Nat
                      /\ SumFunctionOnSet(f, s) \in Int
    OBVIOUS
  <2>1. IsFiniteSet(s)
    BY FS_Subset
  <2> QED
    BY <2>1, FS_CardinalityType, SumType
<1>2. ASSUME Bad # {} PROVE FALSE
  <2>1. Bad \in SUBSET Nat
    OBVIOUS
  <2>2. PICK n \in Bad : \A k \in Bad : n <= k
    BY <1>2, <2>1, LeastExists
  <2>3. PICK s \in SUBSET S : Cardinality(s) = n /\ \E z \in s : ~Splits(s, z)
    BY <2>2
  <2>4. PICK z \in s : ~Splits(s, z)
    BY <2>3
  <2> DEFINE y == Pick(s)
  <2>5. Splits(s, y) /\ y \in s
    BY <1>1, <2>4, SumUnfolds, PickOne
  <2>6. y # z
    BY <2>4, <2>5
  <2> HIDE DEF y
  <2>7. /\ n \in Nat \ {0} /\ n - 1 \in Nat \ Bad
        /\ Cardinality(s \ {y}) = n - 1 /\ Cardinality(s \ {z}) = n - 1
    <3>1. Cardinality(s \ {y}) = n - 1 /\ Cardinality(s \ {z}) = n - 1
      BY <1>1, <2>3, <2>4, <2>5, FS_RemoveElement
    <3>2. n # 0
      BY <1>1, <2>3, <2>4, FS_EmptySet
    <3> QED
      BY <2>2, <3>1, <3>2
  <2>8. Splits(s \ {y}, z) /\ Splits(s \ {z}, y)
    <3>1. z \in s \ {y} /\ y \in s \ {z}
      BY <2>4, <2>5, <2>6
    <3>2. s \ {y} \in SUBSET S /\ s \ {z} \in SUBSET S
      OBVIOUS
    <3>3. \A t \in SUBSET S : Cardinality(t) = n - 1 => \A u \in t : Splits(t, u)
      BY <2>7
    <3> HIDE DEF Splits
    <3> QED
      BY <2>7, <3>1, <3>2, <3>3
  <2>9. (s \ {y}) \ {z} = (s \ {z}) \ {y}
    OBVIOUS
  <2>10. f[y] \in Int /\ f[z] \in Int /\ SumFunctionOnSet(f, (s \ {y}) \ {z}) \in Int
    BY <1>1, <2>4, <2>5
  <2>11. /\ SumFunctionOnSet(f, s) = f[y] + SumFunctionOnSet(f, s \ {y})
         /\ SumFunctionOnSet(f, s \ {y}) = f[z] + SumFunctionOnSet(f, (s \ {y}) \ {z})
         /\ SumFunctionOnSet(f, s \ {z}) = f[y] + SumFunctionOnSet(f, (s \ {z}) \ {y})
    BY <2>5, <2>8, Zenon
  <2>12. SumFunctionOnSet(f, s) = f[z] + SumFunctionOnSet(f, s \ {z})
    BY <2>9, <2>10, <2>11
  <2> QED
    BY <2>4, <2>12
<1>3. Cardinality(S) \in Nat \ Bad
  BY <1>1, <1>2
<1> QED
  BY <1>3

LEMMA SumAdd ==
  ASSUME NEW f, NEW S, IsFiniteSet(S), NEW x, x \notin S, \A y \in S \cup {x} : f[y] \in Int
  PROVE  SumFunctionOnSet(f, S \cup {x}) = f[x] + SumFunctionOnSet(f, S)
<1>1. IsFiniteSet(S \cup {x})
  BY FS_AddElement
<1>2. (S \cup {x}) \ {x} = S
  OBVIOUS
<1>3. x \in S \cup {x}
  OBVIOUS
<1>4. SumFunctionOnSet(f, S \cup {x}) = f[x] + SumFunctionOnSet(f, (S \cup {x}) \ {x})
  BY <1>1, <1>3, SumSplit
<1> QED
  BY <1>2, <1>4

LEMMA SumMonotone ==
  ASSUME NEW f, NEW g, NEW S, IsFiniteSet(S),
         \A x \in S : f[x] \in Int /\ g[x] \in Int /\ f[x] <= g[x]
  PROVE  SumFunctionOnSet(f, S) <= SumFunctionOnSet(g, S)
<1> DEFINE NoMore(s) == SumFunctionOnSet(f, s) <= SumFunctionOnSet(g, s)
           Bad == {n \in Nat : \E s \in SUBSET S : Cardinality(s) = n /\ ~NoMore(s)}
<1>1. ASSUME Bad # {} PROVE FALSE
  <2>1. Bad \in SUBSET Nat
    OBVIOUS
  <2>2. PICK n \in Bad : \A k \in Bad : n <= k
    BY <1>1, <2>1, LeastExists
  <2>3. PICK s \in SUBSET S : Cardinality(s) = n /\ ~NoMore(s)
    BY <2>2
  <2>4. IsFiniteSet(s)
    BY FS_Subset
  <2>5. s # {}
    BY <2>3, <2>4, SumUnfolds
  <2>6. /\ Pick(s) \in S /\ s \ {Pick(s)} \in SUBSET S /\ IsFiniteSet(s \ {Pick(s)})
        /\ Cardinality(s \ {Pick(s)}) = n - 1 /\ n \in Nat \ {0}
    BY <2>3, <2>5, PickOne
  <2>7. n - 1 \in Nat \ Bad
    <3>1. n \in Nat \ {0} /\ \A k \in Bad : n <= k
      BY <2>2, <2>6
    <3> HIDE DEF Bad
    <3> QED
      BY <3>1
  <2>8. NoMore(s \ {Pick(s)})
    BY <2>6, <2>7
  <2>9. /\ SumFunctionOnSet(f, s) = f[Pick(s)] + SumFunctionOnSet(f, s \ {Pick(s)})
        /\ SumFunctionOnSet(g, s) = g[Pick(s)] + SumFunctionOnSet(g, s \ {Pick(s)})
    BY <2>4, <2>5, SumUnfolds
  <2>10. SumFunctionOnSet(f, s \ {Pick(s)}) \in Int /\ SumFunctionOnSet(g, s \ {Pick(s)}) \in Int
    BY <2>6, SumType
  <2>11. f[Pick(s)] \in Int /\ g[Pick(s)] \in Int /\ f[Pick(s)] <= g[Pick(s)]
    BY <2>6
  <2> QED
    BY <2>3, <2>8, <2>9, <2>10, <2>11
<1>2. Cardinality(S) \in Nat \ Bad
  BY <1>1, FS_CardinalityType
<1> QED
  BY <1>2

LEMMA SumCongruent ==
  ASSUME NEW f, NEW g, NEW S, IsFiniteSet(S), \A x \in S : f[x] \in Int /\ g[x] = f[x]
  PROVE  SumFunctionOnSet(f, S) = SumFunctionOnSet(g, S)
<1>1. \A x \in S : f[x] \in Int /\ g[x] \in Int /\ f[x] <= g[x] /\ g[x] <= f[x]
  OBVIOUS
<1>2. /\ SumFunctionOnSet(f, S) <= SumFunctionOnSet(g, S)
      /\ SumFunctionOnSet(g, S) <= SumFunctionOnSet(f, S)
  BY <1>1, SumMonotone
<1>3. SumFunctionOnSet(f, S) \in Int /\ SumFunctionOnSet(g, S) \in Int
  BY <1>1, SumType
<1> QED
  BY <1>2, <1>3

(* Leaving out what is not negative does not increase a sum. *)
LEMMA SumSubset ==
  ASSUME NEW f, NEW S, IsFiniteSet(S), NEW T \in SUBSET S, \A x \in S : f[x] \in Int,
         \A x \in S \ T : f[x] >= 0
  PROVE  SumFunctionOnSet(f, T) <= SumFunctionOnSet(f, S)
<1> DEFINE Bad == {n \in Nat : \E s \in SUBSET (S \ T) :
                     Cardinality(s) = n /\ ~(SumFunctionOnSet(f, T) <= SumFunctionOnSet(f, T \cup s))}
<1>1. ASSUME Bad # {} PROVE FALSE
  <2>1. Bad \in SUBSET Nat
    OBVIOUS
  <2>2. PICK n \in Bad : \A k \in Bad : n <= k
    BY <1>1, <2>1, LeastExists
  <2>3. PICK s \in SUBSET (S \ T) :
          Cardinality(s) = n /\ ~(SumFunctionOnSet(f, T) <= SumFunctionOnSet(f, T \cup s))
    BY <2>2
  <2>4. IsFiniteSet(T) /\ IsFiniteSet(T \cup s) /\ IsFiniteSet(S \ T)
    <3>1. T \cup s \in SUBSET S /\ S \ T \in SUBSET S
      OBVIOUS
    <3> QED
      BY <3>1, FS_Subset
  <2>5. SumFunctionOnSet(f, T) \in Int
    BY <2>4, SumType
  <2>6. s # {}
    <3>1. s = {} => T \cup s = T
      OBVIOUS
    <3> QED
      BY <2>3, <2>5, <3>1
  <2> DEFINE y == Pick(s)
             t == s \ {y}
  <2>7. /\ y \in s /\ t \in SUBSET (S \ T) /\ IsFiniteSet(t)
        /\ Cardinality(t) = n - 1 /\ n \in Nat \ {0}
    BY <2>3, <2>4, <2>6, PickOne
  <2>8. n - 1 \in Nat \ Bad
    <3>1. n \in Nat \ {0} /\ \A k \in Bad : n <= k
      BY <2>2, <2>7
    <3> HIDE DEF Bad
    <3> QED
      BY <3>1
  <2>9. SumFunctionOnSet(f, T) <= SumFunctionOnSet(f, T \cup t)
    BY <2>7, <2>8
  <2>10. (T \cup s) \ {y} = T \cup t /\ y \in T \cup s
    BY <2>7
  <2>11. \A x \in T \cup s : f[x] \in Int
    OBVIOUS
  <2> HIDE DEF y, t
  <2>12. SumFunctionOnSet(f, T \cup s) = f[y] + SumFunctionOnSet(f, T \cup t)
    BY <2>4, <2>10, <2>11, SumSplit
  <2>13. IsFiniteSet(T \cup t)
    <3>1. IsFiniteSet((T \cup s) \ {y})
      BY <2>4, FS_RemoveElement
    <3> QED
      BY <2>10, <3>1
  <2>14. SumFunctionOnSet(f, T \cup t) \in Int
    BY <2>10, <2>11, <2>13, SumType
  <2>15. f[y] \in Int /\ f[y] >= 0
    BY <2>7
  <2> QED
    BY <2>3, <2>5, <2>9, <2>12, <2>14, <2>15
<1>2. S \ T \in SUBSET S
  OBVIOUS
<1>3. Cardinality(S \ T) \in Nat \ Bad
  BY <1>1, <1>2, FS_Subset, FS_CardinalityType
<1>4. T \cup (S \ T) = S
  OBVIOUS
<1> QED
  BY <1>3, <1>4

--------------------------------------------------------------------------------
(* Cards. *)

(* A close date of the closing day. *)
IsClose(c, closing) == \E m \in 1 .. (LastMonth - 2) : c = ClampDay(m, closing)

(* All that is, or is going to be, charged in the cycle. *)
Bill(c) ==
  Owed(closingDay, c) + Cardinality({d \in planned : CycleCloseFor(d, closingDay) = c})

Towards(c) == {p \in payments : p.tag = c}

Paying ==
  [at : {"idle", "next", "post"}, copy : Nat, today : Nat, todo : SUBSET Nat,
   close : Nat, amount : Nat, date : Nat]

CardTypes ==
  /\ closingDay \in ClosingDays
  /\ charges \in [ChargeDates -> Nat]
  /\ planned \subseteq ChargeDates
  /\ IsFiniteSet(payments)
  /\ \A p \in payments : p.amount \in Nat
  /\ cardToday \in CardDays
  /\ recut.at = "commit" => recut.closing \in ClosingDays
  /\ paying \in [Payers \cup {Nightly} -> Paying]

(* Who posts a payment holds the row of the card. *)
LockHeld ==
  \A s \in Payers \cup {Nightly} : paying[s].at = "post" <=> cardLock = s

(* What the nightly run works on: the cycles it listed were over on its day. *)
NightlyRun ==
  LET r == paying[Nightly] IN
  r.at # "idle" =>
    /\ r.today = cardToday /\ r.copy \in ClosingDays
    /\ \A c \in r.todo : IsClose(c, r.copy) /\ c < cardToday
    /\ r.at = "post" => IsClose(r.close, r.copy) /\ r.close < cardToday /\ r.date = cardToday

(* A payment on its way is for a close date of the day that it was derived  *)
(* with; a move of the closing day found all tags fit for it, those that    *)
(* users gave included, which they may change since.                        *)
KeptFit(closing) ==
  \A p \in payments : p.kept => p.tag # 0 /\ CycleCloseFor(p.tag, closing) = p.tag

TagsFit ==
  /\ \A s \in Payers : paying[s].at = "post" => IsClose(paying[s].close, closingDay)
  /\ ~slipped => KeptFit(closingDay)
  /\ ~slipped /\ recut.at = "commit" => KeptFit(recut.closing)

(* Every payment is counted from now on, and with the one on its way no     *)
(* invoice is paid beyond its bill.                                         *)
Covered ==
  ~adjusted /\ ~redrawn =>
    /\ paying[Nightly].at # "idle" => paying[Nightly].copy = closingDay
    /\ \A p \in payments : /\ p.tag # 0 /\ StaysListed(p.date, p.tag)
                           /\ Total(Towards(p.tag)) <= Bill(p.tag)
    /\ \A s \in Payers \cup {Nightly} : paying[s].at = "post" =>
         LET r == paying[s] IN
         /\ r.close # 0 /\ StaysListed(r.date, r.close)
         /\ Total(Towards(r.close)) + r.amount <= Bill(r.close)

CardInv == CardTypes /\ LockHeld /\ NightlyRun /\ TagsFit /\ Covered

(* The calendar. *)
LEMMA MonthsHaveDays ==
  ASSUME NEW m \in Nat \ {0}
  PROVE  DaysIn(m) \in Nat \ {0}
<1>1. Len(MonthLengths) \in Nat \ {0} /\ MonthLengths \in Seq(Nat \ {0})
  BY CardAssumption
<1>2. (m - 1) % Len(MonthLengths) \in 0 .. (Len(MonthLengths) - 1)
  <2> DEFINE n == Len(MonthLengths)
  <2>1. n \in Nat \ {0} /\ m - 1 \in Nat
    BY <1>1
  <2> HIDE DEF n
  <2>2. (m - 1) % n \in 0 .. (n - 1)
    BY <2>1
  <2> QED
    BY <2>2 DEF n
<1>3. ((m - 1) % Len(MonthLengths)) + 1 \in 1 .. Len(MonthLengths)
  BY <1>1, <1>2
<1> QED
  BY <1>1, <1>3 DEF DaysIn

Counts(g, n) == g = [m \in 1 .. n |-> IF m = 1 THEN 0 ELSE g[m - 1] + DaysIn(m - 1)]

(* DaysBefore counts the days of the months before.                         *)
LEMMA DaysBeforeIs ==
  /\ DaysBefore[1] = 0
  /\ \A m \in 1 .. (LastMonth - 1) : DaysBefore[m + 1] = DaysBefore[m] + DaysIn(m)
<1> DEFINE Bad == {n \in Nat : ~\E g : Counts(g, n)}
<1>1. Bad = {}
  <2> SUFFICES ASSUME Bad # {} PROVE FALSE
    OBVIOUS
  <2>1. Bad \in SUBSET Nat
    OBVIOUS
  <2>2. PICK n \in Bad : \A k \in Bad : n <= k
    BY <2>1, LeastExists
  <2>3. CASE n = 0
    <3>1. Counts([m \in {} |-> 0], 0)
      BY DEF Counts
    <3> QED
      BY <2>2, <2>3, <3>1
  <2>4. CASE n # 0
    <3>1. n - 1 \in Nat /\ n - 1 \notin Bad /\ n \in Nat
      BY <2>2, <2>4
    <3>2. PICK g : Counts(g, n - 1)
      BY <3>1
    <3> DEFINE h == [m \in 1 .. n |-> IF m = 1 THEN 0 ELSE g[m - 1] + DaysIn(m - 1)]
    <3>3. \A m \in 1 .. (n - 1) : h[m] = g[m]
      <4>1. \A m \in 1 .. (n - 1) : g[m] = IF m = 1 THEN 0 ELSE g[m - 1] + DaysIn(m - 1)
        BY <3>2 DEF Counts
      <4> QED
        BY <3>1, <4>1
    <3>4. ASSUME NEW m \in 1 .. n, m # 1 PROVE h[m - 1] = g[m - 1]
      <4>1. m - 1 \in 1 .. (n - 1)
        BY <3>1, <3>4
      <4> HIDE DEF h
      <4> QED
        BY <3>3, <4>1
    <3>5. h = [m \in 1 .. n |-> IF m = 1 THEN 0 ELSE h[m - 1] + DaysIn(m - 1)]
      BY <3>4
    <3> QED
      BY <2>2, <3>5 DEF Counts
  <2> QED
    BY <2>3, <2>4
<1>2. LastMonth \in Nat \ {0}
  BY CardAssumption
<1>3. \E g : Counts(g, LastMonth)
  BY <1>1, <1>2
<1>4. DaysBefore = CHOOSE g : Counts(g, LastMonth)
  BY Zenon DEF DaysBefore, Counts
<1>5. Counts(DaysBefore, LastMonth)
  BY <1>3, <1>4, Zenon
<1>6. \A m \in 1 .. LastMonth : DaysBefore[m] = IF m = 1 THEN 0 ELSE DaysBefore[m - 1] + DaysIn(m - 1)
  BY <1>5 DEF Counts
<1>7. DaysBefore[1] = 0
  BY <1>2, <1>6
<1>8. ASSUME NEW m \in 1 .. (LastMonth - 1)
      PROVE  DaysBefore[m + 1] = DaysBefore[m] + DaysIn(m)
  <2>1. m + 1 \in 1 .. LastMonth /\ m + 1 # 1 /\ (m + 1) - 1 = m
    BY <1>2
  <2> QED
    BY <1>6, <2>1
<1> QED
  BY <1>7, <1>8

LEMMA DaysBeforeGrows ==
  /\ \A m \in 1 .. LastMonth : DaysBefore[m] \in Nat /\ m - 1 <= DaysBefore[m]
  /\ \A k, m \in 1 .. LastMonth : k < m => DaysBefore[k] + DaysIn(k) <= DaysBefore[m]
<1> DEFINE Type(m) == DaysBefore[m] \in Nat /\ m - 1 <= DaysBefore[m]
           Later(m) == \A k \in 1 .. (m - 1) : DaysBefore[k] + DaysIn(k) <= DaysBefore[m]
           Bad == {m \in 1 .. LastMonth : ~(Type(m) /\ Later(m))}
<1>1. LastMonth \in Nat \ {0} /\ \A m \in Nat \ {0} : DaysIn(m) \in Nat \ {0}
  BY CardAssumption, MonthsHaveDays
<1>2. ASSUME Bad # {} PROVE FALSE
  <2>1. Bad \in SUBSET Nat
    BY <1>1
  <2>2. PICK n \in Bad : \A k \in Bad : n <= k
    BY <1>2, <2>1, LeastExists
  <2>3. n # 1
    BY <1>1, <2>2, DaysBeforeIs
  <2>4. n - 1 \in 1 .. (LastMonth - 1) /\ n - 1 \notin Bad /\ n \in Nat /\ n - 1 \in Nat \ {0}
    BY <1>1, <2>2, <2>3
  <2>5. Type(n - 1) /\ Later(n - 1)
    BY <1>1, <2>4
  <2>6. (n - 1) + 1 = n
    BY <2>4
  <2>7. DaysBefore[n] = DaysBefore[n - 1] + DaysIn(n - 1)
    BY <2>4, <2>6, DaysBeforeIs
  <2>8. Type(n)
    BY <1>1, <2>4, <2>5, <2>7
  <2>9. ASSUME NEW k \in 1 .. (n - 1) PROVE DaysBefore[k] + DaysIn(k) <= DaysBefore[n]
    <3>1. CASE k = n - 1
      BY <1>1, <2>4, <2>5, <2>7, <3>1
    <3>2. CASE k # n - 1
      <4>1. k \in 1 .. ((n - 1) - 1) /\ k \in Nat \ {0} /\ k \in 1 .. LastMonth /\ k < n
        BY <1>1, <2>4, <3>2
      <4>2. DaysBefore[k] + DaysIn(k) <= DaysBefore[n - 1]
        BY <2>5, <4>1
      <4>3. DaysBefore[k] \in Nat
        BY <1>1, <2>2, <2>4, <4>1
      <4> QED
        BY <1>1, <2>4, <2>5, <2>7, <4>1, <4>2, <4>3
    <3> QED
      BY <3>1, <3>2
  <2> QED
    BY <2>2, <2>8, <2>9
<1>3. \A m \in 1 .. LastMonth : Type(m) /\ Later(m)
  BY <1>2
<1>4. \A m, k \in 1 .. LastMonth : k < m => k \in 1 .. (m - 1)
  BY <1>1
<1> QED
  BY <1>3, <1>4

(* A date is in the month whose days it falls on. *)
LEMMA MonthIs ==
  ASSUME NEW m \in 1 .. (LastMonth - 1), NEW d \in Nat,
         DaysBefore[m] < d, d <= DaysBefore[m] + DaysIn(m)
  PROVE  MonthOf(d) = m
<1>1. LastMonth \in Nat \ {0} /\ m \in 1 .. LastMonth /\ \A k \in Nat \ {0} : DaysIn(k) \in Nat \ {0}
  BY CardAssumption, MonthsHaveDays
<1>2. d \in 1 .. DaysBefore[LastMonth]
  BY <1>1, DaysBeforeGrows
<1>3. ASSUME NEW k \in 1 .. LastMonth, DaysBefore[k] < d, d <= DaysBefore[k] + DaysIn(k)
      PROVE  k = m
  <2>1. ~(k < m) /\ ~(m < k)
    BY <1>1, <1>3, DaysBeforeGrows
  <2> QED
    BY <1>1, <2>1
<1>4. MonthOf(d) = CHOOSE k \in 1 .. LastMonth : DaysBefore[k] < d /\ d <= DaysBefore[k] + DaysIn(k)
  BY <1>2 DEF MonthOf, Months
<1> QED
  BY <1>1, <1>3, <1>4

LEMMA MonthExists ==
  ASSUME NEW d \in Nat \ {0}, d <= LastMonth - 1
  PROVE  /\ MonthOf(d) \in 1 .. d
         /\ DaysBefore[MonthOf(d)] < d /\ d <= DaysBefore[MonthOf(d)] + DaysIn(MonthOf(d))
<1> DEFINE S == {m \in 1 .. LastMonth : d <= DaysBefore[m]}
<1>1. LastMonth \in Nat \ {0} /\ d + 1 \in S /\ S \in SUBSET Nat
  BY CardAssumption, DaysBeforeGrows
<1>2. PICK m \in S : \A k \in S : m <= k
  BY <1>1, LeastExists
<1>3. m # 1
  BY <1>1, <1>2, DaysBeforeIs
<1>4. m - 1 \in 1 .. (LastMonth - 1) /\ m - 1 \notin S /\ m \in Nat
  BY <1>1, <1>2, <1>3
<1>5. (m - 1) + 1 = m
  BY <1>4
<1>6. DaysBefore[m] = DaysBefore[m - 1] + DaysIn(m - 1)
  BY <1>4, <1>5, DaysBeforeIs
<1>7. DaysBefore[m - 1] < d
  BY <1>1, <1>4, DaysBeforeGrows
<1>8. MonthOf(d) = m - 1
  BY <1>2, <1>4, <1>6, <1>7, MonthIs
<1>9. m <= d + 1
  BY <1>1, <1>2
<1> QED
  BY <1>2, <1>4, <1>6, <1>7, <1>8, <1>9

(* A day of a month, clamped, is in that month, and later in a later month. *)
LEMMA ClampIs ==
  ASSUME NEW m \in 1 .. (LastMonth - 1), NEW day \in Nat \ {0}
  PROVE  /\ ClampDay(m, day) \in Nat
         /\ DaysBefore[m] < ClampDay(m, day) /\ ClampDay(m, day) <= DaysBefore[m] + DaysIn(m)
         /\ MonthOf(ClampDay(m, day)) = m
<1>1. LastMonth \in Nat \ {0} /\ m \in Nat \ {0} /\ m \in 1 .. LastMonth
  BY CardAssumption
<1>2. DaysIn(m) \in Nat \ {0} /\ DaysBefore[m] \in Nat
  BY <1>1, MonthsHaveDays, DaysBeforeGrows
<1>3. PICK x \in {day, DaysIn(m)} : \A y \in {day, DaysIn(m)} : x <= y
  BY <1>2
<1>4. Min({day, DaysIn(m)}) \in {day, DaysIn(m)} /\ \A y \in {day, DaysIn(m)} : Min({day, DaysIn(m)}) <= y
  BY <1>3, Zenon DEF Min
<1>5. /\ ClampDay(m, day) \in Nat
      /\ DaysBefore[m] < ClampDay(m, day) /\ ClampDay(m, day) <= DaysBefore[m] + DaysIn(m)
  BY <1>2, <1>4 DEF ClampDay
<1> QED
  BY <1>5, MonthIs

LEMMA ClampGrows ==
  ASSUME NEW k \in 1 .. (LastMonth - 1), NEW m \in 1 .. (LastMonth - 1), NEW day \in Nat \ {0}, k < m
  PROVE  ClampDay(k, day) < ClampDay(m, day)
<1>1. LastMonth \in Nat /\ k \in 1 .. LastMonth /\ m \in 1 .. LastMonth /\ k \in Nat \ {0}
  BY CardAssumption
<1>2. /\ DaysBefore[m] < ClampDay(m, day) /\ ClampDay(m, day) \in Nat
      /\ ClampDay(k, day) <= DaysBefore[k] + DaysIn(k) /\ ClampDay(k, day) \in Nat
  BY ClampIs
<1>3. /\ DaysBefore[k] + DaysIn(k) <= DaysBefore[m] /\ DaysBefore[k] \in Nat /\ DaysBefore[m] \in Nat
      /\ DaysIn(k) \in Nat
  BY <1>1, DaysBeforeGrows, MonthsHaveDays
<1> QED
  BY <1>2, <1>3

(* A close date is the close of its own cycle, and is not 0. *)
LEMMA ClosesClose ==
  ASSUME NEW c, NEW closing \in ClosingDays, IsClose(c, closing)
  PROVE  c \in Nat \ {0} /\ CycleCloseFor(c, closing) = c
<1>1. PICK m \in 1 .. (LastMonth - 2) : c = ClampDay(m, closing)
  BY DEF IsClose
<1>2. /\ closing \in Nat \ {0} /\ LastMonth \in Nat
      /\ m \in 1 .. LastMonth /\ m \in 1 .. (LastMonth - 1)
  BY CardAssumption
<1>3. /\ c \in Nat /\ DaysBefore[m] < c /\ MonthOf(c) = m /\ DaysBefore[m] \in Nat
  BY <1>1, <1>2, ClampIs, DaysBeforeGrows
<1>4. ClampDay(MonthOf(c), closing) = c
  BY <1>1, <1>3
<1> QED
  BY <1>3, <1>4 DEF CycleCloseFor

(* The cycle of a day on which something happens. *)
LEMMA CurrentCycle ==
  ASSUME NEW t \in CardDays, NEW closing \in ClosingDays
  PROVE  LET cur == MonthOf(CycleCloseFor(t, closing)) IN
         /\ MonthOf(t) \in 1 .. t /\ cur \in {MonthOf(t), MonthOf(t) + 1}
         /\ t \in Nat \ {0} /\ 2 * t + 5 <= LastMonth /\ cur \in 1 .. (LastMonth - 1)
         /\ CycleCloseFor(t, closing) = ClampDay(cur, closing) /\ t <= ClampDay(cur, closing)
<1> DEFINE M == MonthOf(t)
<1>1. t \in Nat \ {0} /\ 2 * t + 5 <= LastMonth /\ LastMonth \in Nat /\ closing \in Nat \ {0}
  BY CardAssumption
<1>2. M \in 1 .. t /\ DaysBefore[M] < t /\ t <= DaysBefore[M] + DaysIn(M)
  BY <1>1, MonthExists
<1>3. M \in 1 .. (LastMonth - 1) /\ M + 1 \in 1 .. (LastMonth - 1) /\ M + 1 \in 1 .. LastMonth
  BY <1>1, <1>2
<1>4. MonthOf(ClampDay(M, closing)) = M /\ ClampDay(M, closing) \in Nat
  BY <1>1, <1>3, ClampIs
<1>5. /\ MonthOf(ClampDay(M + 1, closing)) = M + 1 /\ ClampDay(M + 1, closing) \in Nat
      /\ DaysBefore[M + 1] < ClampDay(M + 1, closing)
  BY <1>1, <1>3, ClampIs
<1>6. DaysBefore[M + 1] = DaysBefore[M] + DaysIn(M) /\ DaysBefore[M + 1] \in Nat
  BY <1>3, DaysBeforeIs, DaysBeforeGrows
<1>7. CycleCloseFor(t, closing) = IF ClampDay(M, closing) >= t THEN ClampDay(M, closing)
                                  ELSE ClampDay(M + 1, closing)
  BY DEF CycleCloseFor
<1> HIDE DEF M
<1>8. CASE ClampDay(M, closing) >= t
  BY <1>1, <1>2, <1>3, <1>4, <1>7, <1>8 DEF M
<1>9. CASE ~(ClampDay(M, closing) >= t)
  BY <1>1, <1>2, <1>3, <1>5, <1>6, <1>7, <1>9 DEF M
<1> QED
  BY <1>8, <1>9

LEMMA ClosesAre ==
  ASSUME NEW t \in CardDays, NEW closing \in ClosingDays, NEW ahead \in {0, 1},
         NEW c \in Closes(closing, t, 2, ahead)
  PROVE  IsClose(c, closing)
<1> DEFINE cur == MonthOf(CycleCloseFor(t, closing))
<1>1. /\ t \in Nat \ {0} /\ 2 * t + 5 <= LastMonth /\ LastMonth \in Nat
      /\ cur \in Nat /\ cur <= t + 1
  BY CurrentCycle, CardAssumption
<1>2. PICK m \in Max({1, cur - 2}) .. cur + ahead : c = ClampDay(m, closing)
  BY DEF Closes
<1> HIDE DEF cur
<1>3. Max({1, cur - 2}) \in Int /\ Max({1, cur - 2}) >= 1
  <2>1. PICK x \in {1, cur - 2} : \A y \in {1, cur - 2} : x >= y
    BY <1>1
  <2>2. Max({1, cur - 2}) \in {1, cur - 2} /\ \A y \in {1, cur - 2} : Max({1, cur - 2}) >= y
    BY <2>1, Zenon DEF Max
  <2> QED
    BY <1>1, <2>2
<1>4. m \in 1 .. (LastMonth - 2)
  BY <1>1, <1>2, <1>3
<1> QED
  BY <1>2, <1>4 DEF IsClose

(* An invoice falls due after it closes. *)
LEMMA DueAfterClose ==
  ASSUME NEW closing \in ClosingDays, NEW c, IsClose(c, closing)
  PROVE  DueDateFor(c, DueDay) \in Nat /\ c < DueDateFor(c, DueDay)
<1>1. PICK m \in 1 .. (LastMonth - 2) : c = ClampDay(m, closing)
  BY DEF IsClose
<1>2. /\ closing \in Nat \ {0} /\ LastMonth \in Nat /\ DueDay \in Nat \ {0}
      /\ m \in 1 .. (LastMonth - 1) /\ m + 1 \in 1 .. (LastMonth - 1) /\ m + 1 \in 1 .. LastMonth
  BY CardAssumption
<1>3. c \in Nat /\ c <= DaysBefore[m] + DaysIn(m) /\ MonthOf(c) = m
  BY <1>1, <1>2, ClampIs
<1>4. DaysBefore[m + 1] = DaysBefore[m] + DaysIn(m) /\ DaysBefore[m + 1] \in Nat
  BY <1>2, DaysBeforeIs, DaysBeforeGrows
<1>5. /\ ClampDay(m, DueDay) \in Nat
      /\ ClampDay(m + 1, DueDay) \in Nat /\ DaysBefore[m + 1] < ClampDay(m + 1, DueDay)
  BY <1>2, ClampIs
<1>6. DueDateFor(c, DueDay) = IF ClampDay(m, DueDay) > c THEN ClampDay(m, DueDay)
                              ELSE ClampDay(m + 1, DueDay)
  BY <1>3 DEF DueDateFor
<1>7. CASE ClampDay(m, DueDay) > c
  BY <1>3, <1>5, <1>6, <1>7
<1>8. CASE ~(ClampDay(m, DueDay) > c)
  BY <1>3, <1>4, <1>5, <1>6, <1>8
<1> QED
  BY <1>7, <1>8

(* A payment of the day on which it is made, towards a cycle that is over,  *)
(* is dated inside the cycles that are read then and on any later day.      *)
LEMMA PaidTodayIsListed ==
  ASSUME NEW closing \in ClosingDays, NEW c, IsClose(c, closing),
         NEW t \in CardDays, NEW day \in CardDays, c < day, day <= t
  PROVE  Listed(day, closing, t, Span(c, t), Span(c, t))
<1>1. PICK m \in 1 .. (LastMonth - 2) : c = ClampDay(m, closing)
  BY DEF IsClose
<1> DEFINE cur == MonthOf(CycleCloseFor(t, closing))
           M == MonthOf(t)
<1>2. /\ closing \in Nat \ {0} /\ LastMonth \in Nat /\ m \in 1 .. (LastMonth - 1) /\ m \in 1 .. LastMonth
      /\ t \in Nat \ {0} /\ day \in Nat \ {0} /\ 2 * t + 5 <= LastMonth
  <2>1. closing \in Nat \ {0} /\ LastMonth \in Nat
    BY CardAssumption
  <2>2. t \in Nat \ {0} /\ day \in Nat \ {0} /\ 2 * t + 5 <= LastMonth
    BY CardAssumption
  <2> QED
    BY <2>1, <2>2
<1>3. c \in Nat /\ DaysBefore[m] < c /\ MonthOf(c) = m
  BY <1>1, <1>2, ClampIs
<1>4. M \in 1 .. t /\ t <= DaysBefore[M] + DaysIn(M)
  BY <1>2, MonthExists
<1>5. /\ cur \in {M, M + 1} /\ cur \in 1 .. (LastMonth - 1) /\ t <= ClampDay(cur, closing)
      /\ ClampDay(cur, closing) \in Nat
  BY <1>2, CurrentCycle, ClampIs
<1> HIDE DEF cur, M
<1>6. m <= M
  <2> SUFFICES ASSUME M < m PROVE FALSE
    BY <1>2, <1>4
  <2>1. M \in 1 .. LastMonth /\ M \in Nat \ {0}
    BY <1>2, <1>4
  <2>2. DaysBefore[M] + DaysIn(M) <= DaysBefore[m]
    BY <1>2, <2>1, DaysBeforeGrows
  <2>3. DaysBefore[M] \in Nat /\ DaysIn(M) \in Nat /\ DaysBefore[m] \in Nat
    BY <1>2, <2>1, DaysBeforeGrows, MonthsHaveDays
  <2> QED
    BY <1>2, <1>3, <1>4, <2>2, <2>3
<1>7. Span(c, t) = M - m + 2
  <2>1. m - M \in Int /\ M - m \in Nat /\ m - M <= M - m
    BY <1>2, <1>4, <1>6
  <2>2. Max({m - M, M - m}) = M - m
    <3>1. PICK x \in {m - M, M - m} : \A y \in {m - M, M - m} : x >= y
      BY <2>1
    <3>2. /\ Max({m - M, M - m}) \in {m - M, M - m}
          /\ \A y \in {m - M, M - m} : Max({m - M, M - m}) >= y
      BY <3>1, Zenon DEF Max
    <3> QED
      BY <2>1, <3>2
  <2> QED
    BY <1>3, <2>2 DEF Span, M
<1>8. ASSUME cur - Span(c, t) > 1 PROVE day > ClampDay(cur - Span(c, t) - 1, closing)
  <2> DEFINE k == cur - Span(c, t) - 1
  <2>1. k \in 1 .. (LastMonth - 1) /\ k < m
    BY <1>2, <1>4, <1>5, <1>6, <1>7, <1>8
  <2> HIDE DEF k
  <2>2. ClampDay(k, closing) < c /\ ClampDay(k, closing) \in Nat
    BY <1>1, <1>2, <2>1, ClampGrows, ClampIs
  <2>3. ClampDay(k, closing) < day
    BY <1>2, <1>3, <2>2
  <2> QED
    BY <1>2, <2>2, <2>3 DEF k
<1>9. day <= ClampDay(cur + Span(c, t), closing)
  <2> DEFINE k == cur + Span(c, t)
  <2>1. k \in 1 .. (LastMonth - 1) /\ cur < k
    BY <1>2, <1>4, <1>5, <1>6, <1>7
  <2> HIDE DEF k
  <2>2. ClampDay(cur, closing) < ClampDay(k, closing) /\ ClampDay(k, closing) \in Nat
    BY <1>2, <1>5, <2>1, ClampGrows, ClampIs
  <2>3. day <= ClampDay(k, closing)
    BY <1>2, <1>5, <2>2
  <2> QED
    BY <2>3 DEF k
<1> QED
  BY <1>8, <1>9 DEF Listed, cur

--------------------------------------------------------------------------------
(* Totals and bills. *)

LEMMA TotalOver ==
  ASSUME NEW ps, IsFiniteSet(ps), \A p \in ps : p.amount \in Nat, NEW qs \in SUBSET ps
  PROVE  /\ Total(qs) = SumFunctionOnSet([p \in ps |-> p.amount], qs)
         /\ Total(qs) \in Int /\ Total(qs) <= Total(ps)
<1> DEFINE f == [p \in ps |-> p.amount]
           g == [p \in qs |-> p.amount]
<1>1. IsFiniteSet(qs)
  BY FS_Subset
<1>2. DOMAIN f = ps /\ DOMAIN g = qs
  OBVIOUS
<1>3. Total(ps) = SumFunctionOnSet(f, ps) /\ Total(qs) = SumFunctionOnSet(g, qs)
  BY <1>2 DEF Total, SumFunction
<1>4. \A p \in ps : f[p] \in Int /\ f[p] >= 0
  OBVIOUS
<1>5. \A p \in qs : g[p] \in Int /\ f[p] = g[p]
  OBVIOUS
<1> HIDE DEF f, g
<1>6. SumFunctionOnSet(g, qs) = SumFunctionOnSet(f, qs)
  BY <1>1, <1>5, SumCongruent
<1>7. SumFunctionOnSet(g, qs) \in Int
  BY <1>1, <1>5, SumType
<1>8. SumFunctionOnSet(f, qs) <= SumFunctionOnSet(f, ps)
  BY <1>4, SumSubset
<1> QED
  BY <1>3, <1>6, <1>7, <1>8 DEF f

LEMMA TotalAdds ==
  ASSUME NEW ps, IsFiniteSet(ps), NEW q, q \notin ps, \A p \in ps \cup {q} : p.amount \in Nat
  PROVE  Total(ps \cup {q}) = Total(ps) + q.amount
<1> DEFINE f == [p \in ps \cup {q} |-> p.amount]
<1>1. IsFiniteSet(ps \cup {q})
  BY FS_AddElement
<1>2. /\ Total(ps \cup {q}) = SumFunctionOnSet(f, ps \cup {q})
      /\ Total(ps) = SumFunctionOnSet(f, ps) /\ Total(ps) \in Int
  BY <1>1, TotalOver
<1>3. \A y \in ps \cup {q} : f[y] \in Int
  OBVIOUS
<1>4. f[q] = q.amount /\ q.amount \in Int
  OBVIOUS
<1> HIDE DEF f
<1>5. SumFunctionOnSet(f, ps \cup {q}) = f[q] + SumFunctionOnSet(f, ps)
  BY <1>3, SumAdd
<1> QED
  BY <1>2, <1>4, <1>5

(* What is owed is an integer; a charge adds one to the bill of its cycle.  *)
LEMMA OwedType ==
  ASSUME NEW f \in [ChargeDates -> Nat], NEW S \in SUBSET ChargeDates
  PROVE  IsFiniteSet(S) /\ SumFunctionOnSet(f, S) \in Int
<1>1. IsFiniteSet(S)
  BY FS_Subset, CardAssumption
<1> QED
  BY <1>1, SumType

LEMMA BillType ==
  ASSUME CardTypes, NEW c
  PROVE  /\ Owed(closingDay, c) \in Int /\ Bill(c) \in Int
         /\ IsFiniteSet({d \in planned : CycleCloseFor(d, closingDay) = c})
         /\ Cardinality({d \in planned : CycleCloseFor(d, closingDay) = c}) \in Nat
<1> DEFINE D == {d \in planned : CycleCloseFor(d, closingDay) = c}
<1>1. Owed(closingDay, c) \in Int
  BY OwedType DEF Owed, CardTypes
<1>2. IsFiniteSet(D)
  BY FS_Subset, CardAssumption DEF CardTypes
<1>3. Cardinality(D) \in Nat
  BY <1>2, FS_CardinalityType
<1> QED
  BY <1>1, <1>2, <1>3 DEF Bill

LEMMA OneMore ==
  ASSUME NEW f \in [ChargeDates -> Nat], NEW x \in ChargeDates, NEW g \in [ChargeDates -> Nat],
         g[x] = f[x] + 1, \A y \in ChargeDates \ {x} : g[y] = f[y],
         NEW S \in SUBSET ChargeDates
  PROVE  SumFunctionOnSet(g, S) = IF x \in S THEN SumFunctionOnSet(f, S) + 1 ELSE SumFunctionOnSet(f, S)
<1>1. /\ IsFiniteSet(S) /\ \A y \in S : f[y] \in Int /\ g[y] \in Int
      /\ g[x] = f[x] + 1 /\ f[x] \in Int
      /\ \A y \in S \ {x} : f[y] \in Int /\ g[y] = f[y]
  BY OwedType
<1>2. CASE x \notin S
  <2>1. \A y \in S : f[y] \in Int /\ g[y] = f[y]
    BY <1>1, <1>2
  <2>2. SumFunctionOnSet(f, S) = SumFunctionOnSet(g, S)
    BY <1>1, <2>1, SumCongruent
  <2> QED
    BY <1>2, <2>2
<1>3. CASE x \in S
  <2>1. S \ {x} \in SUBSET ChargeDates
    OBVIOUS
  <2>2. IsFiniteSet(S \ {x}) /\ SumFunctionOnSet(f, S \ {x}) \in Int
    BY <2>1, OwedType
  <2>3. SumFunctionOnSet(f, S \ {x}) = SumFunctionOnSet(g, S \ {x})
    BY <1>1, <2>2, SumCongruent, Zenon
  <2>4. (\A y \in S : f[y] \in Int) /\ (\A y \in S : g[y] \in Int)
    BY <1>1
  <2>5. SumFunctionOnSet(f, S) = f[x] + SumFunctionOnSet(f, S \ {x})
    BY <1>1, <1>3, <2>4, SumSplit
  <2>6. SumFunctionOnSet(g, S) = g[x] + SumFunctionOnSet(g, S \ {x})
    BY <1>1, <1>3, <2>4, SumSplit
  <2> QED
    BY <1>1, <1>3, <2>2, <2>3, <2>5, <2>6
<1> QED
  BY <1>2, <1>3

(* A charge more adds to a bill, and takes the place of the occurrence that *)
(* was planned.                                                             *)
LEMMA ChargeAdds ==
  ASSUME CardTypes, closingDay' = closingDay, NEW x \in ChargeDates,
         charges' \in [ChargeDates -> Nat], charges'[x] = charges[x] + 1,
         \A y \in ChargeDates \ {x} : charges'[y] = charges[y],
         planned' = planned \/ (x \in planned /\ planned' = planned \ {x})
  PROVE  \A c : Bill(c) <= Bill(c)'
<1> SUFFICES ASSUME NEW c PROVE Bill(c) <= Bill(c)'
  OBVIOUS
<1> DEFINE S == {d \in ChargeDates : CycleCloseFor(d, closingDay) = c}
           P == {d \in planned : CycleCloseFor(d, closingDay) = c}
           Q == {d \in planned' : CycleCloseFor(d, closingDay) = c}
<1>1. /\ Bill(c) = SumFunctionOnSet(charges, S) + Cardinality(P)
      /\ Bill(c)' = SumFunctionOnSet(charges', S) + Cardinality(Q)
  BY DEF Bill, Owed
<1>2. charges \in [ChargeDates -> Nat] /\ charges' \in [ChargeDates -> Nat]
  BY DEF CardTypes
<1>3. IsFiniteSet(P) /\ Cardinality(P) \in Nat
  BY BillType
<1>4. S \in SUBSET ChargeDates
  OBVIOUS
<1>5. /\ SumFunctionOnSet(charges, S) \in Int
      /\ SumFunctionOnSet(charges', S) = IF x \in S THEN SumFunctionOnSet(charges, S) + 1
                                         ELSE SumFunctionOnSet(charges, S)
  <2>1. SumFunctionOnSet(charges, S) \in Int
    BY <1>2, <1>4, OwedType
  <2> HIDE DEF S
  <2>2. SumFunctionOnSet(charges', S) = IF x \in S THEN SumFunctionOnSet(charges, S) + 1
                                        ELSE SumFunctionOnSet(charges, S)
    BY <1>2, <1>4, OneMore
  <2> QED
    BY <2>1, <2>2
<1>6. Cardinality(Q) \in Nat /\ Cardinality(P) <= Cardinality(Q) + (IF x \in S THEN 1 ELSE 0)
  <2>1. Q = P \/ (Q = P \ {x} /\ x \in planned)
    OBVIOUS
  <2>2. Q = P \/ (Q = P \ {x} /\ x \in P /\ x \in S)
    BY <2>1
  <2>3. Cardinality(P \ {x}) = IF x \in P THEN Cardinality(P) - 1 ELSE Cardinality(P)
    BY <1>3, FS_RemoveElement
  <2>4. Cardinality(P \ {x}) \in Nat
    BY <1>3, FS_RemoveElement, FS_CardinalityType
  <2> HIDE DEF P, Q, S
  <2>5. CASE Q = P
    BY <1>3, <2>5
  <2>6. CASE Q = P \ {x} /\ x \in P /\ x \in S
    BY <1>3, <2>3, <2>4, <2>6
  <2> QED
    BY <2>2, <2>5, <2>6
<1> HIDE DEF P, Q, S
<1> QED
  BY <1>1, <1>3, <1>5, <1>6

(* What may be paid, under the lock, is covered by the bill. *)
LEMMA PayableFits ==
  ASSUME CardTypes, NEW close, NEW amount \in Payable(closingDay, close, cardToday),
         \A p \in payments : p.tag # 0 /\ StaysListed(p.date, p.tag)
  PROVE  Total(Towards(close)) + amount <= Bill(close)
<1> DEFINE span == Span(close, cardToday)
           read == {p \in payments : /\ Target(p, closingDay) = close
                                     /\ Listed(p.date, closingDay, cardToday, span, span)}
           P == {d \in planned : CycleCloseFor(d, closingDay) = close}
<1>1. amount \in Int /\ amount <= Remaining(closingDay, close, cardToday, span, span)
  BY DEF Payable
<1>2. Remaining(closingDay, close, cardToday, span, span)
        = Owed(closingDay, close) + Projected(closingDay, close, cardToday) - Total(read)
  BY DEF Remaining, Paid
<1>3. Towards(close) \in SUBSET read
  <2>1. cardToday \in CardDays /\ cardToday \in Nat
    BY CardAssumption DEF CardTypes
  <2> SUFFICES ASSUME NEW p \in payments, p.tag = close PROVE p \in read
    BY DEF Towards
  <2>2. Listed(p.date, closingDay, cardToday, span, span)
    BY <2>1 DEF StaysListed
  <2> QED
    BY <2>2 DEF Target
<1>4. read \in SUBSET payments /\ IsFiniteSet(read) /\ \A p \in read : p.amount \in Nat
  BY FS_Subset DEF CardTypes
<1> HIDE DEF read
<1>5. /\ Total(Towards(close)) <= Total(read) /\ Total(Towards(close)) \in Int
      /\ Total(read) \in Int
  BY <1>3, <1>4, TotalOver
<1>6. /\ Projected(closingDay, close, cardToday) \in Nat
      /\ Projected(closingDay, close, cardToday) <= Cardinality(P)
  <2> DEFINE R == {d \in planned : CycleCloseFor(d, closingDay) = close /\ d > cardToday}
  <2>1. R \in SUBSET P
    OBVIOUS
  <2>2. IsFiniteSet(P) /\ Cardinality(P) \in Nat
    BY BillType
  <2>3. Cardinality(R) \in Nat /\ Cardinality(R) <= Cardinality(P)
    BY <2>1, <2>2, FS_Subset, FS_CardinalityType
  <2> QED
    BY <2>2, <2>3 DEF Projected
<1>7. /\ Owed(closingDay, close) \in Int /\ Cardinality(P) \in Nat
      /\ Bill(close) = Owed(closingDay, close) + Cardinality(P)
  BY BillType DEF Bill
<1> HIDE DEF P
<1> QED
  BY <1>1, <1>2, <1>5, <1>6, <1>7

--------------------------------------------------------------------------------
(* Steps of a card. *)

(* Nothing about payments happens, no day goes back, no bill shrinks. *)
LEMMA CoveredStays ==
  ASSUME CardInv, UNCHANGED <<closingDay, payments, paying>>,
         cardToday' \in CardDays, cardToday <= cardToday',
         adjusted => adjusted', redrawn => redrawn',
         ~adjusted' /\ ~redrawn' => \A c : Bill(c) <= Bill(c)', CardTypes'
  PROVE  Covered'
<1> SUFFICES ASSUME ~adjusted', ~redrawn'
             PROVE  /\ paying[Nightly].at # "idle" => paying[Nightly].copy = closingDay
                    /\ \A p \in payments : /\ p.tag # 0 /\ StaysListed(p.date, p.tag)'
                                           /\ Total(Towards(p.tag)) <= Bill(p.tag)'
                    /\ \A s \in Payers \cup {Nightly} : paying[s].at = "post" =>
                         LET q == paying[s] IN
                         /\ q.close # 0 /\ StaysListed(q.date, q.close)'
                         /\ Total(Towards(q.close)) + q.amount <= Bill(q.close)'
  BY DEF Covered, Towards, Total
<1>1. CardTypes /\ Covered /\ ~adjusted /\ ~redrawn
  BY DEF CardInv
<1>2. ASSUME NEW c PROVE Bill(c) \in Int /\ Bill(c)' \in Int /\ Bill(c) <= Bill(c)'
  <2> DEFINE D == {d \in planned' : CycleCloseFor(d, closingDay') = c}
  <2>1. D \in SUBSET ChargeDates /\ charges' \in [ChargeDates -> Nat]
    BY DEF CardTypes
  <2>2. Cardinality(D) \in Nat
    BY <2>1, FS_Subset, FS_CardinalityType, CardAssumption
  <2>3. Owed(closingDay, c)' \in Int
    BY <2>1, OwedType DEF Owed
  <2>4. Bill(c)' \in Int
    BY <2>2, <2>3 DEF Bill
  <2> QED
    BY <1>1, <2>4, BillType
<1>3. \A c : Total(Towards(c)) \in Int
  <2> SUFFICES ASSUME NEW c PROVE Total(Towards(c)) \in Int
    OBVIOUS
  <2>1. Towards(c) \in SUBSET payments
    BY DEF Towards
  <2> QED
    BY <1>1, <2>1, TotalOver DEF CardTypes
<1>4. ASSUME NEW x, NEW c, StaysListed(x, c) PROVE StaysListed(x, c)'
  <2>1. cardToday \in Nat /\ cardToday' \in Nat /\ CardDays \subseteq Nat
    BY <1>1, CardAssumption DEF CardTypes
  <2>2. \A t \in CardDays : t >= cardToday' => t >= cardToday
    BY <2>1
  <2> QED
    BY <1>4, <2>2 DEF StaysListed
<1>5. paying[Nightly].at # "idle" => paying[Nightly].copy = closingDay
  BY <1>1 DEF Covered
<1>6. ASSUME NEW p \in payments
      PROVE  p.tag # 0 /\ StaysListed(p.date, p.tag)' /\ Total(Towards(p.tag)) <= Bill(p.tag)'
  <2>1. p.tag # 0 /\ StaysListed(p.date, p.tag) /\ Total(Towards(p.tag)) <= Bill(p.tag)
    BY <1>1 DEF Covered
  <2> QED
    BY <1>2, <1>3, <1>4, <2>1
<1>7. ASSUME NEW s \in Payers \cup {Nightly}, paying[s].at = "post"
      PROVE  /\ paying[s].close # 0 /\ StaysListed(paying[s].date, paying[s].close)'
             /\ Total(Towards(paying[s].close)) + paying[s].amount <= Bill(paying[s].close)'
  <2>1. /\ paying[s].close # 0 /\ StaysListed(paying[s].date, paying[s].close)
        /\ Total(Towards(paying[s].close)) + paying[s].amount <= Bill(paying[s].close)
    BY <1>1, <1>7 DEF Covered
  <2>2. paying[s].amount \in Nat
    BY <1>1 DEF CardTypes, Paying
  <2> QED
    BY <1>2, <1>3, <1>4, <2>1, <2>2
<1> QED
  BY <1>5, <1>6, <1>7

(* What the user does to charges and planned occurrences. *)
LEMMA ChargesKeep ==
  ASSUME CardInv, NEW x \in ChargeDates,
         AddCharge(x) \/ DropCharge(x) \/ DropPlanned(x) \/ PostPlanned(x)
  PROVE  CardInv'
<1>1. CardTypes /\ LockHeld /\ NightlyRun /\ TagsFit
  BY DEF CardInv
<1>2. /\ UNCHANGED <<closingDay, payments, cardLock, paying, recut, cardToday, redrawn, slipped>>
      /\ adjusted => adjusted'
  BY DEF AddCharge, DropCharge, DropPlanned, PostPlanned, cardHistory
<1>3. charges' \in [ChargeDates -> Nat] /\ planned' \subseteq ChargeDates
  <2>1. charges \in [ChargeDates -> Nat] /\ planned \subseteq ChargeDates
    BY <1>1 DEF CardTypes
  <2>2. CASE AddCharge(x)
    BY <2>1, <2>2 DEF AddCharge
  <2>3. CASE DropCharge(x)
    BY <2>1, <2>3 DEF DropCharge
  <2>4. CASE DropPlanned(x)
    BY <2>1, <2>4 DEF DropPlanned
  <2>5. CASE PostPlanned(x)
    BY <2>1, <2>5 DEF PostPlanned
  <2> QED
    BY <2>2, <2>3, <2>4, <2>5
<1>4. CardTypes'
  BY <1>1, <1>2, <1>3 DEF CardTypes
<1>5. LockHeld' /\ NightlyRun' /\ TagsFit'
  BY <1>1, <1>2 DEF LockHeld, NightlyRun, TagsFit, KeptFit
<1>6. ASSUME ~adjusted' PROVE \A c : Bill(c) <= Bill(c)'
  <2>1. AddCharge(x) \/ PostPlanned(x)
    BY <1>6 DEF DropCharge, DropPlanned
  <2>2. /\ charges'[x] = charges[x] + 1 /\ \A y \in ChargeDates \ {x} : charges'[y] = charges[y]
        /\ planned' = planned \/ (x \in planned /\ planned' = planned \ {x})
    <3>1. charges \in [ChargeDates -> Nat]
      BY <1>1 DEF CardTypes
    <3>2. CASE AddCharge(x)
      BY <3>1, <3>2 DEF AddCharge
    <3>3. CASE PostPlanned(x)
      BY <3>1, <3>3 DEF PostPlanned
    <3> QED
      BY <2>1, <3>2, <3>3
  <2> QED
    BY <1>1, <1>2, <1>3, <2>2, ChargeAdds
<1>7. cardToday' \in CardDays /\ cardToday <= cardToday'
  BY <1>1, <1>2, CardAssumption DEF CardTypes
<1>8. Covered'
  BY <1>2, <1>4, <1>6, <1>7, CoveredStays
<1> QED
  BY <1>4, <1>5, <1>8 DEF CardInv

LEMMA DayKeeps ==
  ASSUME CardInv, CardDayPasses
  PROVE  CardInv'
<1>1. CardTypes /\ LockHeld /\ NightlyRun /\ TagsFit
  BY DEF CardInv
<1>2. /\ UNCHANGED <<closingDay, charges, planned, payments, cardLock, paying, recut, adjusted, redrawn, slipped>>
      /\ paying[Nightly].at = "idle"
  <2>1. /\ UNCHANGED <<closingDay, charges, planned, payments, cardLock, paying, recut, cardHistory>>
        /\ paying[Nightly].at = "idle"
    BY DEF CardDayPasses
  <2> QED
    BY <2>1 DEF cardHistory
<1>3. cardToday' \in CardDays /\ cardToday <= cardToday'
  <2> DEFINE S == {d \in CardDays : d > cardToday}
  <2>1. S \in SUBSET Nat /\ S # {} /\ cardToday' = Min(S)
    BY CardAssumption DEF CardDayPasses
  <2>2. cardToday' \in S
    BY <2>1, LeastIs
  <2>3. cardToday \in Nat /\ cardToday' \in Nat
    BY <1>1, <2>1, <2>2, CardAssumption DEF CardTypes
  <2> QED
    BY <2>2, <2>3
<1>4. CardTypes'
  BY <1>1, <1>2, <1>3 DEF CardTypes
<1>5. LockHeld' /\ NightlyRun' /\ TagsFit'
  BY <1>1, <1>2 DEF LockHeld, NightlyRun, TagsFit, KeptFit
<1>6. \A c : Bill(c)' = Bill(c)
  BY <1>2 DEF Bill, Owed
<1>7. ASSUME NEW c PROVE Bill(c) <= Bill(c)'
  <2>1. Bill(c) \in Int
    BY <1>1, BillType
  <2> QED
    BY <1>6, <2>1
<1>8. Covered'
  BY <1>2, <1>3, <1>4, <1>7, CoveredStays
<1> QED
  BY <1>4, <1>5, <1>8 DEF CardInv

LEMMA LockNames == Nightly \notin Payers /\ "free" \notin Payers \cup {Nightly}
BY CardAssumption

LEMMA NobodyPosts ==
  ASSUME LockHeld, cardLock = "free"
  PROVE  \A s \in Payers \cup {Nightly} : paying[s].at # "post"
<1> SUFFICES ASSUME NEW s \in Payers \cup {Nightly}, paying[s].at = "post" PROVE FALSE
  OBVIOUS
<1>1. cardLock = s
  BY DEF LockHeld
<1> QED
  BY <1>1, LockNames

LEMMA RecutKeeps ==
  ASSUME CardInv, (\E c \in ClosingDays : ChangeClosingDay(c)) \/ CommitClosingDay
  PROVE  CardInv'
<1>1. CardTypes /\ LockHeld /\ NightlyRun /\ TagsFit /\ Covered
  BY DEF CardInv
<1>2. CASE \E c \in ClosingDays : ChangeClosingDay(c)
  <2>1. PICK c \in ClosingDays : ChangeClosingDay(c)
    BY <1>2
  <2>2. /\ recut' = [at |-> "commit", closing |-> c] /\ StillCloses(c)
        /\ UNCHANGED <<closingDay, charges, planned, payments, cardLock, paying, cardToday,
                       adjusted, redrawn, slipped>>
    BY <2>1 DEF ChangeClosingDay, cardHistory
  <2>3. CardTypes'
    BY <1>1, <2>2 DEF CardTypes
  <2>4. LockHeld' /\ NightlyRun' /\ TagsFit'
    BY <1>1, <2>2 DEF LockHeld, NightlyRun, TagsFit, KeptFit, StillCloses
  <2>5. \A x : Bill(x)' = Bill(x)
    BY <2>2 DEF Bill, Owed
  <2>6. ASSUME NEW x PROVE Bill(x) <= Bill(x)'
    <3>1. Bill(x) \in Int
      BY <1>1, BillType
    <3> QED
      BY <2>5, <3>1
  <2>7. cardToday' \in CardDays /\ cardToday <= cardToday'
    BY <1>1, <2>2, CardAssumption DEF CardTypes
  <2>8. Covered'
    BY <2>2, <2>3, <2>6, <2>7, CoveredStays
  <2> QED
    BY <2>3, <2>4, <2>8 DEF CardInv
<1>3. CASE CommitClosingDay
  <2>1. /\ recut.at = "commit" /\ cardLock = "free" /\ closingDay' = recut.closing
        /\ ~redrawn' => payments = {} /\ paying[Nightly].at = "idle"
        /\ recut' = NoRecut
        /\ UNCHANGED <<charges, planned, payments, cardLock, paying, cardToday, adjusted, slipped>>
    BY <1>3 DEF CommitClosingDay
  <2>2. \A s \in Payers \cup {Nightly} : paying[s].at # "post"
    BY <1>1, <2>1, NobodyPosts
  <2>3. CardTypes'
    BY <1>1, <2>1 DEF CardTypes, NoRecut
  <2>4. LockHeld' /\ NightlyRun'
    BY <1>1, <2>1 DEF LockHeld, NightlyRun
  <2>5. TagsFit'
    BY <1>1, <2>1, <2>2 DEF TagsFit, KeptFit, StillCloses, NoRecut
  <2>6. Covered'
    BY <2>1, <2>2 DEF Covered
  <2> QED
    BY <2>3, <2>4, <2>5, <2>6 DEF CardInv
<1> QED
  BY <1>2, <1>3

(* Payments are edited or deleted: towards every cycle no more is paid, and *)
(* what pay_invoice tagged keeps its tag or its mark.                       *)
LEMMA LessIsPaid ==
  ASSUME CardInv,
         UNCHANGED <<closingDay, charges, planned, cardLock, paying, recut, cardToday, redrawn, slipped>>,
         IsFiniteSet(payments'), \A p \in payments' : p.amount \in Nat,
         \A p \in payments' : p.kept => \E x \in payments : x.kept /\ x.tag = p.tag,
         adjusted => adjusted',
         ~adjusted' /\ ~redrawn => \A p \in payments' : /\ StaysListed(p.date, p.tag)
                                                        /\ \E x \in payments : x.tag = p.tag,
         ~adjusted' => \A c : Total(Towards(c)') <= Total(Towards(c))
  PROVE  CardInv'
<1>1. CardTypes /\ LockHeld /\ NightlyRun /\ TagsFit /\ Covered
  BY DEF CardInv
<1>2. CardTypes'
  BY <1>1 DEF CardTypes
<1>3. LockHeld' /\ NightlyRun' /\ TagsFit'
  BY <1>1 DEF LockHeld, NightlyRun, TagsFit, KeptFit
<1>4. Covered'
  <2> SUFFICES ASSUME ~adjusted', ~redrawn PROVE Covered'
    BY DEF Covered
  <2>1. ~adjusted /\ \A c : Total(Towards(c)') <= Total(Towards(c))
    OBVIOUS
  <2>2. /\ paying[Nightly].at # "idle" => paying[Nightly].copy = closingDay
        /\ \A p \in payments : /\ p.tag # 0 /\ StaysListed(p.date, p.tag)
                               /\ Total(Towards(p.tag)) <= Bill(p.tag)
        /\ \A s \in Payers \cup {Nightly} : paying[s].at = "post" =>
             /\ paying[s].close # 0 /\ StaysListed(paying[s].date, paying[s].close)
             /\ Total(Towards(paying[s].close)) + paying[s].amount <= Bill(paying[s].close)
    BY <1>1, <2>1 DEF Covered
  <2>3. \A c : Bill(c)' = Bill(c) /\ Bill(c) \in Int
    BY <1>1, BillType DEF Bill, Owed
  <2>4. \A d, c : StaysListed(d, c)' <=> StaysListed(d, c)
    BY DEF StaysListed
  <2>5. ASSUME NEW c PROVE Total(Towards(c)) \in Int /\ Total(Towards(c)') \in Int
    <3>1. Towards(c) \in SUBSET payments /\ Towards(c)' \in SUBSET payments'
      BY DEF Towards
    <3>2. IsFiniteSet(payments) /\ \A p \in payments : p.amount \in Nat
      BY <1>1 DEF CardTypes
    <3>3. Total(Towards(c)) \in Int
      BY <3>1, <3>2, TotalOver
    <3>4. Total(Towards(c)') \in Int
      BY <3>1, TotalOver
    <3> QED
      BY <3>3, <3>4
  <2>6. ASSUME NEW p \in payments'
        PROVE  p.tag # 0 /\ StaysListed(p.date, p.tag) /\ Total(Towards(p.tag)') <= Bill(p.tag)
    <3>1. PICK x \in payments : x.tag = p.tag
      OBVIOUS
    <3>2. p.tag # 0 /\ Total(Towards(p.tag)) <= Bill(p.tag)
      BY <2>2, <3>1
    <3>3. Total(Towards(p.tag)') <= Bill(p.tag)
      BY <2>1, <2>3, <2>5, <3>2
    <3> QED
      BY <3>2, <3>3
  <2>7. ASSUME NEW s \in Payers \cup {Nightly}, paying[s].at = "post"
        PROVE  /\ paying[s].close # 0 /\ StaysListed(paying[s].date, paying[s].close)
               /\ Total(Towards(paying[s].close)') + paying[s].amount <= Bill(paying[s].close)
    <3>1. paying[s].amount \in Nat
      BY <1>1 DEF CardTypes, Paying
    <3> QED
      BY <2>1, <2>2, <2>3, <2>5, <2>7, <3>1
  <2>8. \A c : Total(Towards(c))' = Total(Towards(c)')
    BY DEF Total
  <2> QED
    BY <2>2, <2>3, <2>4, <2>6, <2>7, <2>8 DEF Covered
<1> QED
  BY <1>2, <1>3, <1>4 DEF CardInv

LEMMA DeleteKeeps ==
  ASSUME CardInv, NEW x \in payments, DeletePayment(x)
  PROVE  CardInv'
<1>1. CardTypes /\ Covered
  BY DEF CardInv
<1>2. /\ payments' = payments \ {x}
      /\ UNCHANGED <<closingDay, charges, planned, cardLock, paying, recut, cardToday, adjusted, redrawn, slipped>>
  BY DEF DeletePayment, cardHistory
<1>3. IsFiniteSet(payments') /\ \A p \in payments' : p.amount \in Nat /\ p \in payments
  BY <1>1, <1>2, FS_RemoveElement DEF CardTypes
<1>4. ~adjusted' /\ ~redrawn => \A p \in payments' : StaysListed(p.date, p.tag)
  BY <1>1, <1>2, <1>3 DEF Covered
<1>5. ASSUME NEW c PROVE Total(Towards(c)') <= Total(Towards(c))
  <2>1. Towards(c)' \in SUBSET Towards(c) /\ Towards(c) \in SUBSET payments
    BY <1>2 DEF Towards
  <2>2. IsFiniteSet(Towards(c)) /\ \A q \in Towards(c) : q.amount \in Nat
    BY <1>1, <2>1, FS_Subset DEF CardTypes
  <2> QED
    BY <2>1, <2>2, TotalOver
<1> QED
  BY <1>2, <1>3, <1>4, <1>5, LessIsPaid

LEMMA EditKeeps ==
  ASSUME CardInv, NEW x \in payments, NEW tag, NEW date, NEW amount \in 1 .. MaxCharges,
         EditPayment(x, tag, date, amount)
  PROVE  CardInv'
<1> DEFINE q == [id |-> x.id, tag |-> tag, date |-> date, amount |-> amount,
                 kept |-> x.kept /\ tag = x.tag]
<1>1. CardTypes /\ Covered
  BY DEF CardInv
<1>2. /\ payments' = (payments \ {x}) \cup {q}
      /\ adjusted' = (adjusted \/ tag # x.tag \/ amount > x.amount \/ ~StaysListed(date, tag))
      /\ UNCHANGED <<closingDay, charges, planned, cardLock, paying, recut, cardToday, redrawn, slipped>>
  BY DEF EditPayment
<1>3. q.tag = tag /\ q.date = date /\ q.amount = amount /\ (q.kept => x.kept /\ tag = x.tag)
  OBVIOUS
<1>4. q.amount \in Nat /\ x.amount \in Nat
  BY <1>1, <1>3, CardAssumption DEF CardTypes
<1> HIDE DEF q
<1>5. IsFiniteSet(payments') /\ \A p \in payments' : p.amount \in Nat
  BY <1>1, <1>2, <1>4, FS_RemoveElement, FS_AddElement DEF CardTypes
<1>6. \A p \in payments' : p.kept => \E y \in payments : y.kept /\ y.tag = p.tag
  BY <1>2, <1>3
<1>7. ASSUME ~adjusted' PROVE q.tag = x.tag /\ q.amount <= x.amount /\ StaysListed(q.date, q.tag)
  <2>1. ~(tag # x.tag) /\ ~(amount > x.amount) /\ StaysListed(date, tag)
    BY <1>2, <1>7
  <2>2. q.tag = x.tag /\ StaysListed(q.date, q.tag)
    BY <1>3, <2>1
  <2>3. q.amount <= x.amount
    BY <1>3, <1>4, <2>1
  <2> QED
    BY <2>2, <2>3
<1>8. ~adjusted' /\ ~redrawn =>
        \A p \in payments' : StaysListed(p.date, p.tag) /\ \E y \in payments : y.tag = p.tag
  BY <1>1, <1>2, <1>7 DEF Covered
<1>9. ASSUME ~adjusted', NEW c PROVE Total(Towards(c)') <= Total(Towards(c))
  <2> DEFINE rest == Towards(c) \ {x}
  <2>1. Towards(c) \in SUBSET payments
    BY DEF Towards
  <2>2. IsFiniteSet(Towards(c)) /\ \A p \in Towards(c) : p.amount \in Nat
    BY <1>1, <2>1, FS_Subset DEF CardTypes
  <2>3. IsFiniteSet(rest) /\ rest \in SUBSET Towards(c) /\ x \notin rest
    BY <2>2, FS_RemoveElement
  <2>4. /\ Total(rest) \in Int /\ Total(rest) <= Total(Towards(c)) /\ Total(Towards(c)) \in Int
    BY <2>2, <2>3, TotalOver
  <2>5. CASE x.tag # c
    <3>1. Towards(c)' = Towards(c)
      BY <1>2, <1>7, <1>9, <2>5 DEF Towards
    <3> QED
      BY <2>4, <3>1
  <2>6. CASE x.tag = c /\ q \in rest
    <3>1. Towards(c)' = rest
      BY <1>2, <1>7, <1>9, <2>6 DEF Towards
    <3> QED
      BY <2>4, <3>1
  <2>7. CASE x.tag = c /\ q \notin rest
    <3>1. Towards(c)' = rest \cup {q} /\ Towards(c) = rest \cup {x}
      BY <1>2, <1>7, <1>9, <2>7 DEF Towards
    <3> HIDE DEF rest
    <3>2. Total(rest \cup {x}) = Total(rest) + x.amount
      BY <1>4, <2>2, <2>3, TotalAdds
    <3>3. Total(rest \cup {q}) = Total(rest) + q.amount
      BY <1>4, <2>2, <2>3, <2>7, TotalAdds
    <3> QED
      BY <1>4, <1>7, <1>9, <2>4, <3>1, <3>2, <3>3
  <2> QED
    BY <2>5, <2>6, <2>7
<1> QED
  BY <1>2, <1>5, <1>6, <1>8, <1>9, LessIsPaid

(* A request, or the nightly run, takes the lock for a payment that fits.   *)
LEMMA TakesLock ==
  ASSUME CardInv, cardLock = "free", NEW s \in Payers \cup {Nightly}, NEW r \in Paying,
         r.at = "post", cardLock' = s, paying' = [paying EXCEPT ![s] = r],
         s \in Payers => IsClose(r.close, closingDay),
         s = Nightly => /\ r.today = cardToday /\ r.copy \in ClosingDays
                        /\ \A c \in r.todo : IsClose(c, r.copy) /\ c < cardToday
                        /\ IsClose(r.close, r.copy) /\ r.close < cardToday /\ r.date = cardToday,
         UNCHANGED <<closingDay, charges, planned, payments, recut, cardToday, redrawn, slipped>>,
         adjusted => adjusted',
         ~adjusted' /\ ~redrawn => /\ s = Nightly => r.copy = closingDay
                                   /\ r.close # 0 /\ StaysListed(r.date, r.close)
                                   /\ r.amount \in Payable(closingDay, r.close, cardToday)
  PROVE  CardInv'
<1>1. CardTypes /\ LockHeld /\ NightlyRun /\ TagsFit /\ Covered /\ Nightly \notin Payers
  BY LockNames DEF CardInv
<1>2. \A q \in Payers \cup {Nightly} : paying[q].at # "post"
  BY <1>1, NobodyPosts
<1>3. /\ paying'[s] = r /\ \A q \in (Payers \cup {Nightly}) \ {s} : paying'[q] = paying[q]
      /\ paying' \in [Payers \cup {Nightly} -> Paying]
  BY <1>1 DEF CardTypes
<1>4. CardTypes'
  BY <1>1, <1>3 DEF CardTypes
<1>5. LockHeld'
  BY <1>2, <1>3 DEF LockHeld
<1>6. NightlyRun'
  <2>1. CASE s = Nightly
    <3>1. paying'[Nightly] = r /\ cardToday' = cardToday
      BY <1>3, <2>1
    <3> QED
      BY <2>1, <3>1 DEF NightlyRun
  <2>2. CASE s # Nightly
    <3>1. paying'[Nightly] = paying[Nightly]
      BY <1>3, <2>2
    <3> QED
      BY <1>1, <3>1 DEF NightlyRun
  <2> QED
    BY <2>1, <2>2
<1>7. TagsFit'
  <2>1. \A q \in Payers : paying'[q].at = "post" => IsClose(paying'[q].close, closingDay)
    BY <1>2, <1>3
  <2> QED
    BY <1>1, <2>1 DEF TagsFit, KeptFit
<1>8. Covered'
  <2> SUFFICES ASSUME ~adjusted', ~redrawn' PROVE Covered'
    BY DEF Covered
  <2>1. ~adjusted /\ ~redrawn
    OBVIOUS
  <2>2. /\ paying[Nightly].at # "idle" => paying[Nightly].copy = closingDay
        /\ \A p \in payments : /\ p.tag # 0 /\ StaysListed(p.date, p.tag)
                               /\ Total(Towards(p.tag)) <= Bill(p.tag)
    BY <1>1, <2>1 DEF Covered
  <2>3. Total(Towards(r.close)) + r.amount <= Bill(r.close)
    BY <1>1, <2>1, <2>2, PayableFits
  <2>4. \A c : Bill(c)' = Bill(c) /\ Towards(c)' = Towards(c) /\ Total(Towards(c))' = Total(Towards(c))
    BY DEF Bill, Owed, Towards, Total
  <2>5. \A d, c : StaysListed(d, c)' <=> StaysListed(d, c)
    BY DEF StaysListed
  <2>6. paying'[Nightly].at # "idle" => paying'[Nightly].copy = closingDay
    <3>1. CASE s = Nightly
      BY <1>3, <2>1, <3>1
    <3>2. CASE s # Nightly
      BY <1>3, <2>2, <3>2
    <3> QED
      BY <3>1, <3>2
  <2>7. ASSUME NEW q \in Payers \cup {Nightly}, paying'[q].at = "post"
        PROVE  /\ paying'[q].close # 0 /\ StaysListed(paying'[q].date, paying'[q].close)
               /\ Total(Towards(paying'[q].close)) + paying'[q].amount <= Bill(paying'[q].close)
    <3>1. q = s
      BY <1>2, <1>3, <2>7
    <3> QED
      BY <1>3, <2>1, <2>3, <3>1
  <2> QED
    BY <2>2, <2>4, <2>5, <2>6, <2>7 DEF Covered
<1> QED
  BY <1>4, <1>5, <1>6, <1>7, <1>8 DEF CardInv

(* The nightly run is done with the card, or has begun with it. *)
LEMMA RunMoves ==
  ASSUME CardInv, NEW r \in Paying, paying' = [paying EXCEPT ![Nightly] = r], r.at # "post",
         paying[Nightly].at # "post",
         UNCHANGED <<closingDay, charges, planned, payments, cardLock, recut, cardToday,
                     adjusted, redrawn, slipped>>,
         r.at # "idle" => /\ r.today = cardToday /\ r.copy \in ClosingDays
                          /\ \A c \in r.todo : IsClose(c, r.copy) /\ c < cardToday
                          /\ ~adjusted /\ ~redrawn => r.copy = closingDay
  PROVE  CardInv'
<1>1. CardTypes /\ LockHeld /\ NightlyRun /\ TagsFit /\ Covered /\ Nightly \notin Payers
  BY LockNames DEF CardInv
<1>2. /\ paying'[Nightly] = r /\ \A q \in Payers : paying'[q] = paying[q]
      /\ paying' \in [Payers \cup {Nightly} -> Paying]
  BY <1>1 DEF CardTypes
<1>3. CardTypes'
  BY <1>1, <1>2 DEF CardTypes
<1>4. LockHeld'
  BY <1>1, <1>2 DEF LockHeld
<1>5. NightlyRun'
  BY <1>2 DEF NightlyRun
<1>6. TagsFit'
  <2>1. \A q \in Payers : paying'[q].at = "post" => IsClose(paying'[q].close, closingDay)
    BY <1>1, <1>2 DEF TagsFit
  <2> QED
    BY <1>1, <2>1 DEF TagsFit, KeptFit
<1>7. Covered'
  <2> SUFFICES ASSUME ~adjusted, ~redrawn PROVE Covered'
    BY DEF Covered
  <2>1. \A c : Bill(c)' = Bill(c) /\ Towards(c)' = Towards(c) /\ Total(Towards(c))' = Total(Towards(c))
    BY DEF Bill, Owed, Towards, Total
  <2>2. \A d, c : StaysListed(d, c)' <=> StaysListed(d, c)
    BY DEF StaysListed
  <2>3. /\ \A p \in payments : /\ p.tag # 0 /\ StaysListed(p.date, p.tag)
                               /\ Total(Towards(p.tag)) <= Bill(p.tag)
        /\ \A s \in Payers \cup {Nightly} : paying'[s].at = "post" =>
             /\ paying'[s].close # 0 /\ StaysListed(paying'[s].date, paying'[s].close)
             /\ Total(Towards(paying'[s].close)) + paying'[s].amount <= Bill(paying'[s].close)
    BY <1>1, <1>2 DEF Covered
  <2>4. paying'[Nightly].at # "idle" => paying'[Nightly].copy = closingDay
    BY <1>2
  <2> QED
    BY <2>1, <2>2, <2>3, <2>4 DEF Covered
<1> QED
  BY <1>3, <1>4, <1>5, <1>6, <1>7 DEF CardInv

LEMMA RunEnds ==
  ASSUME CardInv, paying' = [paying EXCEPT ![Nightly] = NotPaying], paying[Nightly].at # "post",
         UNCHANGED <<closingDay, charges, planned, payments, cardLock, recut, cardToday,
                     adjusted, redrawn, slipped>>
  PROVE  CardInv'
<1>1. NotPaying \in Paying /\ NotPaying.at = "idle"
  BY DEF NotPaying, Paying
<1> QED
  BY <1>1, RunMoves

LEMMA RunStarts ==
  ASSUME CardInv, StartAutoPay
  PROVE  CardInv'
<1> DEFINE due == {x \in Closes(closingDay, cardToday, 2, 0) :
                     /\ Remaining(closingDay, x, cardToday, 2, 0) > 0
                     /\ DueDateFor(x, DueDay) <= cardToday
                     /\ DueDateFor(x, DueDay) >= cardToday - AutoPayWindow}
           r == [NotPaying EXCEPT !.at = "next", !.copy = closingDay, !.today = cardToday, !.todo = due]
<1>1. CardTypes
  BY DEF CardInv
<1>2. /\ paying[Nightly].at = "idle" /\ paying' = [paying EXCEPT ![Nightly] = r]
      /\ UNCHANGED <<closingDay, charges, planned, payments, cardLock, recut, cardToday,
                     adjusted, redrawn, slipped>>
  BY DEF StartAutoPay, cardHistory
<1>3. cardToday \in CardDays /\ cardToday \in Nat /\ closingDay \in ClosingDays /\ closingDay \in Nat
  BY <1>1, CardAssumption DEF CardTypes
<1>4. ASSUME NEW c \in due PROVE IsClose(c, closingDay) /\ c < cardToday /\ c \in Nat
  <2>1. IsClose(c, closingDay)
    BY <1>3, ClosesAre
  <2>2. c \in Nat /\ DueDateFor(c, DueDay) \in Nat /\ c < DueDateFor(c, DueDay)
    BY <1>3, <2>1, ClosesClose, DueAfterClose
  <2>3. DueDateFor(c, DueDay) <= cardToday
    OBVIOUS
  <2> QED
    BY <1>3, <2>1, <2>2, <2>3
<1> HIDE DEF due
<1>5. due \in SUBSET Nat
  BY <1>4
<1>6. /\ r \in Paying /\ r.at = "next" /\ r.today = cardToday /\ r.copy = closingDay /\ r.todo = due
  BY <1>3, <1>5 DEF NotPaying, Paying
<1> HIDE DEF r
<1> QED
  BY <1>2, <1>3, <1>4, <1>6, RunMoves

LEMMA PayKeeps ==
  ASSUME CardInv, NEW s \in Payers, NEW c \in Closes(closingDay, cardToday, 2, 1),
         NEW amount, NEW date \in PayDates \cup {cardToday}, PayInvoice(s, c, amount, date)
  PROVE  CardInv'
<1> DEFINE r == [NotPaying EXCEPT !.at = "post", !.close = c, !.amount = amount, !.date = date]
<1>1. CardTypes /\ s # Nightly
  BY LockNames DEF CardInv
<1>2. /\ cardLock = "free" /\ cardLock' = s /\ paying' = [paying EXCEPT ![s] = r]
      /\ amount \in Payable(closingDay, c, cardToday)
      /\ adjusted' = (adjusted \/ ~StaysListed(date, c))
      /\ UNCHANGED <<closingDay, charges, planned, payments, recut, cardToday, redrawn, slipped>>
  BY DEF PayInvoice
<1>3. IsClose(c, closingDay) /\ c \in Nat \ {0}
  <2>1. cardToday \in CardDays /\ closingDay \in ClosingDays
    BY <1>1 DEF CardTypes
  <2>2. IsClose(c, closingDay)
    BY <2>1, ClosesAre
  <2> QED
    BY <2>1, <2>2, ClosesClose
<1>4. amount \in Nat /\ date \in Nat
  BY <1>1, <1>2, CardAssumption DEF Payable, CardTypes
<1>5. /\ r \in Paying /\ r.at = "post" /\ r.close = c /\ r.amount = amount /\ r.date = date
  BY <1>3, <1>4 DEF Paying, NotPaying
<1> HIDE DEF r
<1>6. (adjusted => adjusted') /\ (~adjusted' => StaysListed(date, c))
  BY <1>2
<1>7. ~adjusted' => /\ r.close # 0 /\ StaysListed(r.date, r.close)
                    /\ r.amount \in Payable(closingDay, r.close, cardToday)
  BY <1>2, <1>3, <1>5, <1>6
<1> QED
  BY <1>1, <1>2, <1>3, <1>5, <1>6, <1>7, TakesLock

LEMMA AutoPayKeeps ==
  ASSUME CardInv, AutoPay
  PROVE  CardInv'
<1> DEFINE r == paying[Nightly]
           close == Min(r.todo)
           amounts == Payable(r.copy, close, r.today)
           q == [r EXCEPT !.at = "post", !.todo = r.todo \ {close}, !.close = close,
                          !.amount = Max(amounts), !.date = r.today]
<1>1. CardTypes /\ LockHeld /\ NightlyRun /\ TagsFit /\ Covered /\ Nightly \notin Payers
  BY LockNames DEF CardInv
<1>2. /\ r.at = "next" /\ r.todo # {} /\ cardLock = "free"
      /\ UNCHANGED <<closingDay, charges, planned, payments, recut, cardToday, adjusted, redrawn, slipped>>
      /\ IF amounts = {} THEN paying' = [paying EXCEPT ![Nightly] = NotPaying] /\ UNCHANGED cardLock
         ELSE cardLock' = Nightly /\ paying' = [paying EXCEPT ![Nightly] = q]
  BY DEF AutoPay, cardHistory
<1>3. r \in Paying /\ r.todo \in SUBSET Nat
  BY <1>1 DEF CardTypes, Paying
<1>4. /\ r.today = cardToday /\ r.copy \in ClosingDays
      /\ \A c \in r.todo : IsClose(c, r.copy) /\ c < cardToday
  BY <1>1, <1>2 DEF NightlyRun
<1>5. close \in r.todo /\ close \in Nat
  BY <1>2, <1>3, LeastIs
<1>6. cardToday \in CardDays /\ cardToday \in Nat
  BY <1>1, CardAssumption DEF CardTypes
<1>7. CASE amounts = {}
  BY <1>1, <1>2, <1>7, RunEnds
<1>8. CASE amounts # {}
  <2>1. cardLock' = Nightly /\ paying' = [paying EXCEPT ![Nightly] = q]
    BY <1>2, <1>8
  <2>2. Max(amounts) \in amounts /\ Max(amounts) \in Nat
    <3> DEFINE n == MaxCharges + Cardinality(ChargeDates)
    <3>1. n \in Nat
      BY CardAssumption, FS_CardinalityType
    <3>2. amounts \in SUBSET (1 .. n)
      BY DEF Payable
    <3> HIDE DEF amounts, n
    <3>3. amounts \in SUBSET Nat /\ \A i \in amounts : i <= n
      BY <3>1, <3>2
    <3> QED
      BY <1>8, <3>1, <3>3, LargestIs
  <2> HIDE DEF amounts, close
  <2>3. /\ q \in Paying /\ q.at = "post" /\ q.close = close /\ q.amount = Max(amounts)
        /\ q.date = cardToday /\ q.today = cardToday /\ q.copy = r.copy /\ q.todo = r.todo \ {close}
    BY <1>3, <1>4, <1>5, <1>6, <2>2 DEF Paying
  <2>4. /\ q.today = cardToday /\ q.copy \in ClosingDays
        /\ \A c \in q.todo : IsClose(c, q.copy) /\ c < cardToday
        /\ IsClose(q.close, q.copy) /\ q.close < cardToday /\ q.date = cardToday
    BY <1>4, <1>5, <2>3
  <2>5. ASSUME ~adjusted, ~redrawn
        PROVE  /\ q.copy = closingDay /\ q.close # 0 /\ StaysListed(q.date, q.close)
               /\ q.amount \in Payable(closingDay, q.close, cardToday)
    <3>1. r.copy = closingDay
      BY <1>1, <1>2, <2>5 DEF Covered
    <3>2. close \in Nat \ {0}
      BY <1>4, <1>5, ClosesClose
    <3>3. StaysListed(cardToday, close)
      <4> SUFFICES ASSUME NEW t \in CardDays, t >= cardToday
                   PROVE  Listed(cardToday, closingDay, t, Span(close, t), Span(close, t))
        BY DEF StaysListed
      <4>1. t \in Nat /\ cardToday <= t
        BY <1>6, CardAssumption
      <4> QED
        BY <1>4, <1>5, <1>6, <3>1, <4>1, PaidTodayIsListed
    <3>4. Max(amounts) \in Payable(closingDay, close, cardToday)
      BY <1>4, <2>2, <3>1 DEF amounts
    <3> QED
      BY <2>3, <3>1, <3>2, <3>3, <3>4
  <2> HIDE DEF q
  <2> QED
    BY <1>1, <1>2, <2>1, <2>3, <2>4, <2>5, TakesLock
<1> QED
  BY <1>7, <1>8

(* A transfer is a new row. *)
LEMMA BooksAnew ==
  ASSUME NEW tag, NEW date, NEW amount, NEW kept,
         Book([tag |-> tag, date |-> date, amount |-> amount, kept |-> kept])
  PROVE  \E q : /\ q \notin payments /\ payments' = payments \cup {q}
                /\ q.tag = tag /\ q.date = date /\ q.amount = amount /\ q.kept = kept
<1> DEFINE i == Min(UnusedIds)
           q == [id |-> i, tag |-> tag, date |-> date, amount |-> amount, kept |-> kept]
<1>1. UnusedIds # {} /\ payments' = payments \cup {q}
  BY DEF Book
<1>2. UnusedIds \in SUBSET Nat
  BY CardAssumption DEF UnusedIds
<1>3. i \in UnusedIds
  BY <1>1, <1>2, LeastIs
<1> HIDE DEF i
<1>4. q \notin payments
  BY <1>3 DEF UnusedIds
<1> QED
  BY <1>1, <1>4

LEMMA PostKeeps ==
  ASSUME CardInv, NEW s \in Payers \cup {Nightly}, PostPayment(s)
  PROVE  CardInv'
<1> DEFINE r == paying[s]
           x == IF s # Nightly THEN NotPaying
                ELSE [r EXCEPT !.at = "next", !.close = 0, !.amount = 0, !.date = 0]
<1>1. CardTypes /\ LockHeld /\ NightlyRun /\ TagsFit /\ Covered /\ Nightly \notin Payers
      /\ "free" \notin Payers \cup {Nightly}
  BY LockNames DEF CardInv
<1>2. /\ r.at = "post" /\ cardLock' = "free" /\ paying' = [paying EXCEPT ![s] = x]
      /\ Book([tag |-> r.close, date |-> r.date, amount |-> r.amount, kept |-> TRUE])
      /\ slipped' = (slipped \/ recut.at = "commit" \/ (s = Nightly /\ r.copy # closingDay))
      /\ UNCHANGED <<closingDay, charges, planned, recut, cardToday, adjusted, redrawn>>
  BY DEF PostPayment
<1>3. r \in Paying /\ r.amount \in Nat
  BY <1>1 DEF CardTypes, Paying
<1>4. /\ x \in Paying /\ x.at # "post"
      /\ s = Nightly => x.today = r.today /\ x.copy = r.copy /\ x.todo = r.todo
      /\ s # Nightly => x.at = "idle"
  BY <1>3 DEF NotPaying, Paying
<1> HIDE DEF x
<1>5. /\ paying'[s] = x /\ \A i \in (Payers \cup {Nightly}) \ {s} : paying'[i] = paying[i]
      /\ paying' \in [Payers \cup {Nightly} -> Paying]
  BY <1>1, <1>2, <1>4 DEF CardTypes
<1>6. PICK q : /\ q \notin payments /\ payments' = payments \cup {q}
               /\ q.tag = r.close /\ q.date = r.date /\ q.amount = r.amount
               /\ q.kept = TRUE
  <2>1. Book([tag |-> r.close, date |-> r.date, amount |-> r.amount, kept |-> TRUE])
    BY <1>2
  <2> QED
    BY <2>1, BooksAnew
<1>7. cardLock = s
  BY <1>1, <1>2 DEF LockHeld
<1>8. \A i \in Payers \cup {Nightly} : paying'[i].at # "post"
  <2> SUFFICES ASSUME NEW i \in Payers \cup {Nightly}, i # s PROVE paying[i].at # "post"
    BY <1>4, <1>5
  <2> QED
    BY <1>1, <1>7 DEF LockHeld
<1>9. CardTypes'
  <2>1. IsFiniteSet(payments') /\ \A p \in payments' : p.amount \in Nat
    BY <1>1, <1>3, <1>6, FS_AddElement DEF CardTypes
  <2> QED
    BY <1>1, <1>2, <1>5, <2>1 DEF CardTypes
<1>10. LockHeld'
  BY <1>1, <1>2, <1>8 DEF LockHeld
<1>11. NightlyRun'
  <2>1. CASE s = Nightly
    <3>1. /\ r.today = cardToday /\ r.copy \in ClosingDays
          /\ \A c \in r.todo : IsClose(c, r.copy) /\ c < cardToday
      BY <1>1, <1>2, <2>1 DEF NightlyRun
    <3>2. paying'[Nightly] = x /\ x.today = cardToday /\ x.copy = r.copy /\ x.todo = r.todo
      BY <1>4, <1>5, <2>1, <3>1
    <3> QED
      BY <1>2, <1>4, <3>1, <3>2 DEF NightlyRun
  <2>2. CASE s # Nightly
    <3>1. paying'[Nightly] = paying[Nightly]
      BY <1>5, <2>2
    <3> QED
      BY <1>1, <1>2, <3>1 DEF NightlyRun
  <2> QED
    BY <2>1, <2>2
<1>12. TagsFit'
  <2> SUFFICES ASSUME ~slipped' PROVE KeptFit(closingDay)' /\ recut.at # "commit"
    BY <1>2, <1>8 DEF TagsFit
  <2>1. ~slipped /\ recut.at # "commit" /\ (s = Nightly => r.copy = closingDay)
    BY <1>2
  <2>2. IsClose(r.close, closingDay)
    <3>1. CASE s = Nightly
      BY <1>1, <1>2, <2>1, <3>1 DEF NightlyRun
    <3>2. CASE s # Nightly
      BY <1>1, <1>2, <3>2 DEF TagsFit
    <3> QED
      BY <3>1, <3>2
  <2>3. CycleCloseFor(r.close, closingDay) = r.close /\ r.close # 0
    BY <1>1, <2>2, ClosesClose DEF CardTypes
  <2> QED
    BY <1>1, <1>2, <1>6, <2>1, <2>3 DEF TagsFit, KeptFit
<1>13. Covered'
  <2> SUFFICES ASSUME ~adjusted, ~redrawn PROVE Covered'
    BY <1>2 DEF Covered
  <2> PICK k : k = r.close
    OBVIOUS
  <2>1. /\ paying[Nightly].at # "idle" => paying[Nightly].copy = closingDay
        /\ \A p \in payments : /\ p.tag # 0 /\ StaysListed(p.date, p.tag)
                               /\ Total(Towards(p.tag)) <= Bill(p.tag)
        /\ k # 0 /\ StaysListed(r.date, k)
        /\ Total(Towards(k)) + r.amount <= Bill(k)
    BY <1>1, <1>2 DEF Covered
  <2>2. paying'[Nightly].at # "idle" => paying'[Nightly].copy = closingDay
    <3>1. CASE s = Nightly
      BY <1>2, <1>4, <1>5, <2>1, <3>1
    <3>2. CASE s # Nightly
      BY <1>5, <2>1, <3>2
    <3> QED
      BY <3>1, <3>2
  <2>3. \A c : Bill(c)' = Bill(c)
    BY <1>2 DEF Bill, Owed
  <2>4. \A d, c : StaysListed(d, c)' <=> StaysListed(d, c)
    BY <1>2 DEF StaysListed
  <2>5. Total(Towards(k)') = Total(Towards(k)) + r.amount
    <3>1. Towards(k) \in SUBSET payments /\ Towards(k)' = Towards(k) \cup {q}
      BY <1>6 DEF Towards
    <3>2. /\ IsFiniteSet(Towards(k)) /\ q \notin Towards(k)
          /\ \A p \in Towards(k) \cup {q} : p.amount \in Nat
      BY <1>1, <1>3, <1>6, <3>1, FS_Subset DEF CardTypes
    <3>3. Total(Towards(k) \cup {q}) = Total(Towards(k)) + q.amount
      BY <3>2, TotalAdds
    <3> QED
      BY <1>6, <3>1, <3>3
  <2>6. ASSUME NEW p \in payments'
        PROVE  /\ p.tag # 0 /\ StaysListed(p.date, p.tag)
               /\ Total(Towards(p.tag)') <= Bill(p.tag)
    <3>1. CASE p.tag = k
      <4>1. StaysListed(p.date, p.tag)
        BY <1>6, <2>1
      <4> QED
        BY <2>1, <2>5, <3>1, <4>1
    <3>2. CASE p.tag # k
      <4>1. p \in payments
        BY <1>6, <3>2
      <4>2. Towards(p.tag)' = Towards(p.tag)
        BY <1>6, <3>2 DEF Towards
      <4> QED
        BY <2>1, <4>1, <4>2
    <3> QED
      BY <3>1, <3>2
  <2>7. \A c : Total(Towards(c))' = Total(Towards(c)')
    BY DEF Total
  <2> QED
    BY <1>2, <1>8, <2>2, <2>3, <2>4, <2>6, <2>7 DEF Covered
<1> QED
  BY <1>9, <1>10, <1>11, <1>12, <1>13 DEF CardInv

LEMMA TransferKeeps ==
  ASSUME CardInv, NEW tag, Transfer(tag)
  PROVE  CardInv'
<1>1. CardTypes /\ LockHeld /\ NightlyRun /\ TagsFit
  BY DEF CardInv
<1>2. /\ Book([tag |-> tag, date |-> cardToday, amount |-> 1, kept |-> FALSE]) /\ adjusted'
      /\ UNCHANGED <<closingDay, charges, planned, cardLock, paying, recut, cardToday, redrawn, slipped>>
  BY DEF Transfer
<1>3. PICK q : /\ q \notin payments /\ payments' = payments \cup {q}
               /\ q.tag = tag /\ q.date = cardToday /\ q.amount = 1 /\ q.kept = FALSE
  <2>1. Book([tag |-> tag, date |-> cardToday, amount |-> 1, kept |-> FALSE])
    BY <1>2
  <2> QED
    BY <2>1, BooksAnew
<1>4. IsFiniteSet(payments') /\ \A p \in payments' : p.amount \in Nat
  BY <1>1, <1>3, FS_AddElement DEF CardTypes
<1>5. CardTypes'
  BY <1>1, <1>2, <1>4 DEF CardTypes
<1>6. LockHeld' /\ NightlyRun'
  BY <1>1, <1>2 DEF LockHeld, NightlyRun
<1>7. TagsFit'
  BY <1>1, <1>2, <1>3 DEF TagsFit, KeptFit
<1>8. Covered'
  BY <1>2 DEF Covered
<1> QED
  BY <1>5, <1>6, <1>7, <1>8 DEF CardInv

LEMMA CardStarts ==
  ASSUME CardInit
  PROVE  CardInv
<1>1. \A s \in Payers \cup {Nightly} : paying[s].at = "idle"
  BY DEF CardInit, NotPaying
<1>2. CardTypes
  <2>1. cardToday \in CardDays
    BY LeastIs, CardAssumption DEF CardInit
  <2>2. NotPaying \in Paying
    BY DEF NotPaying, Paying
  <2>3. IsFiniteSet(payments)
    BY FS_EmptySet DEF CardInit
  <2>4. paying \in [Payers \cup {Nightly} -> Paying]
    BY <2>2 DEF CardInit
  <2>5. planned \subseteq ChargeDates /\ charges \in [ChargeDates -> Nat]
    BY CardAssumption DEF CardInit
  <2> QED
    BY <2>1, <2>3, <2>4, <2>5 DEF CardTypes, CardInit, NoRecut
<1>3. LockHeld
  BY <1>1, LockNames DEF CardInit, LockHeld
<1>4. NightlyRun /\ TagsFit /\ Covered
  BY <1>1 DEF CardInit, NightlyRun, TagsFit, KeptFit, Covered, NoRecut
<1> QED
  BY <1>2, <1>3, <1>4 DEF CardInv

LEMMA CardStep ==
  ASSUME CardInv, [CardNext]_cardVars
  PROVE  CardInv'
<1>1. CASE \E s \in Payers, c \in Closes(closingDay, cardToday, 2, 1),
              a \in 1 .. MaxCharges, d \in PayDates \cup {cardToday} : PayInvoice(s, c, a, d)
  BY <1>1, PayKeeps
<1>2. CASE \E s \in Payers \cup {Nightly} : PostPayment(s)
  BY <1>2, PostKeeps
<1>3. CASE StartAutoPay
  BY <1>3, RunStarts
<1>4. CASE AutoPay
  BY <1>4, AutoPayKeeps
<1>5. CASE AutoPayEnds
  <2>1. /\ paying[Nightly].at # "post" /\ paying' = [paying EXCEPT ![Nightly] = NotPaying]
        /\ UNCHANGED <<closingDay, charges, planned, payments, cardLock, recut, cardToday,
                       adjusted, redrawn, slipped>>
    BY <1>5 DEF AutoPayEnds, cardHistory
  <2> QED
    BY <2>1, RunEnds
<1>6. CASE \E d \in ChargeDates : AddCharge(d) \/ DropCharge(d) \/ DropPlanned(d) \/ PostPlanned(d)
  BY <1>6, ChargesKeep
<1>7. CASE \E t \in {0} \cup UserTags : Transfer(t)
  BY <1>7, TransferKeeps
<1>8. CASE \E p \in payments : DeletePayment(p)
  BY <1>8, DeleteKeeps
<1>12. CASE \E p \in payments : \E t \in {0, p.tag} \cup UserTags, d \in PayDates \cup {p.date},
              a \in 1 .. MaxCharges : EditPayment(p, t, d, a)
  BY <1>12, EditKeeps
<1>9. CASE (\E c \in ClosingDays : ChangeClosingDay(c)) \/ CommitClosingDay
  BY <1>9, RecutKeeps
<1>10. CASE CardDayPasses
  BY <1>10, DayKeeps
<1>11. CASE UNCHANGED cardVars
  <2>1. UNCHANGED <<closingDay, charges, planned, payments, cardLock, paying, recut,
                    cardToday, adjusted, redrawn, slipped>>
    BY <1>11 DEF cardVars, cardHistory
  <2>2. CardTypes'
    BY <2>1 DEF CardInv, CardTypes
  <2>3. (LockHeld /\ NightlyRun /\ TagsFit)'
    BY <2>1 DEF CardInv, LockHeld, NightlyRun, TagsFit, KeptFit
  <2>4. (\A c : Bill(c) = Bill(c)' /\ Total(Towards(c)) = Total(Towards(c))')
        /\ \A d, c : StaysListed(d, c)' <=> StaysListed(d, c)
    BY <2>1 DEF Bill, Owed, Towards, Total, StaysListed
  <2>5. Covered'
    BY <2>1, <2>4 DEF CardInv, Covered
  <2> QED
    BY <2>2, <2>3, <2>5 DEF CardInv
<1> QED
  BY <1>1, <1>2, <1>3, <1>4, <1>5, <1>6, <1>7, <1>8, <1>9, <1>10, <1>11, <1>12 DEF CardNext

(* Every reachable state of a card satisfies the invariant: who posts holds *)
(* the row, the nightly run pays cycles that are over, and no invoice is    *)
(* paid beyond its bill, the payment on its way included.                   *)
THEOREM CardsAreConsistent == CardSpec => []CardInv
<1>1. CardInit => CardInv
  BY CardStarts
<1>2. CardInv /\ [CardNext]_cardVars => CardInv'
  BY CardStep
<1> QED
  BY <1>1, <1>2, PTL DEF CardSpec

(* However the closing day is moved back and forth, and other transfers to  *)
(* the card are tagged and edited, the tag that pay_invoice gave a payment  *)
(* stays the close of a cycle until its user sets another, unless the       *)
(* payment was on its way while the day changed                             *)
(* (_validate_closing_day_change).                                          *)
THEOREM TagsStayCloses == CardSpec => []TagsAreCloses
<1>1. CardInv => TagsAreCloses
  BY DEF CardInv, TagsFit, KeptFit, TagsAreCloses
<1> QED
  BY <1>1, CardsAreConsistent, PTL

(* Requests and the nightly run race to pay one invoice (pay_invoice,       *)
(* post_due_invoice_payments): together they never pay more than is charged *)
(* or planned in its cycle.                                                 *)
THEOREM InvoicesNotOverpaid == CardSpec => []InvoiceNotOverpaid
<1>1. CardInv => InvoiceNotOverpaid
  <2> SUFFICES ASSUME CardInv, ~adjusted, ~redrawn, NEW p \in payments
               PROVE  Total({i \in payments : i.tag = p.tag})
                        <= Owed(closingDay, p.tag)
                             + Cardinality({d \in planned : CycleCloseFor(d, closingDay) = p.tag})
    BY DEF InvoiceNotOverpaid
  <2>1. Total(Towards(p.tag)) <= Bill(p.tag)
    BY DEF CardInv, Covered
  <2> QED
    BY <2>1 DEF Towards, Bill
<1> QED
  BY <1>1, CardsAreConsistent, PTL

--------------------------------------------------------------------------------
(* Wallets. *)

AnyTerms ==
  [type : Settled \cup {"yield", "none"}, asset : Assets \cup {"none"}, date : Nat, qty : Nat]
Trade == [terms : AnyTerms, existing : BOOLEAN, leg : Nat]
TradeRequest ==
  [op : {"none", "create", "update", "delete"}, place : Places \cup {0}, copy : Trade,
   terms : AnyTerms, existing : BOOLEAN, settles : BOOLEAN, stale : BOOLEAN]

LegRow ==
  [id : Nat \ {0}, type : Settled \cup {"yield", "none"}, date : Nat, qty : Nat, own : BOOLEAN]

WalletTypes ==
  /\ trades \in [Places -> Trade]
  /\ legs \in SUBSET LegRow
  /\ pending \in TradeRequest
  /\ \E n \in Nat : /\ pending.copy.leg <= n /\ \A l \in legs : l.id <= n
                    /\ \A i \in Places : trades[i].leg <= n

(* Legs and the trades they settle belong together. *)
LegsMatch ==
  /\ \A l \in legs :
       \E i \in Places : /\ {j \in Places : trades[j].leg = l.id} = {i}
                         /\ l.own \/ Leg(l.id, trades[i].terms) = l
  /\ \A i \in Places : trades[i].leg # 0 => /\ trades[i].terms.type # "none"
                                            /\ \E l \in legs : l.id = trades[i].leg

(* What the validation of a request found is still so. *)
StillTrue(r) ==
  /\ r.op = "create" => r.terms \in Terms /\ (r.terms.type = "sell" => Valid(trades, r.terms))
  /\ r.op \in {"update", "delete"} => r.place \in LivePlaces /\ r.copy = trades[r.place]
  /\ r.op = "update" => r.terms \in Terms

WalletInv ==
  /\ WalletTypes
  /\ pending # NoRequest /\ ~pending.stale => StillTrue(pending)
  /\ ~overlapped => LegsMatch
  /\ ~overlapped /\ ~backdated => \A a \in Assets : Folds(trades, a)

(* The rows whose turn comes before that of a row. *)
Before(ts, i) ==
  {j \in Of(ts, ts[i].terms.asset) :
     \/ ts[j].terms.date < ts[i].terms.date
     \/ ts[j].terms.date = ts[i].terms.date /\ j < i}

LEMMA SignedIs ==
  ASSUME NEW t \in Trade
  PROVE  /\ Signed(t) \in Int
         /\ t.terms.type = "buy" => Signed(t) >= 0
<1>1. t.terms.qty \in Nat
  BY DEF Trade, AnyTerms
<1> QED
  BY <1>1 DEF Signed

LEMMA SumIs ==
  ASSUME NEW ts \in [Places -> Trade], NEW S \in SUBSET Places
  PROVE  IsFiniteSet(S) /\ Net(ts, S) \in Int
<1>1. IsFiniteSet(S)
  <2>1. IsFiniteSet(Places)
    BY FS_Interval, InvestmentAssumption DEF Places
  <2> QED
    BY <2>1, FS_Subset
<1> DEFINE f == [i \in DOMAIN ts |-> Signed(ts[i])]
<1>2. \A i \in S : f[i] \in Int
  BY SignedIs
<1> HIDE DEF f
<1>3. SumFunctionOnSet(f, S) \in Int
  BY <1>1, <1>2, SumType
<1> QED
  BY <1>1, <1>3 DEF Net, f

LEMMA SumSame ==
  ASSUME NEW ts \in [Places -> Trade], NEW us \in [Places -> Trade], NEW S \in SUBSET Places,
         \A i \in S : us[i] = ts[i]
  PROVE  Net(us, S) = Net(ts, S)
<1> DEFINE f == [i \in DOMAIN ts |-> Signed(ts[i])]
           g == [i \in DOMAIN us |-> Signed(us[i])]
<1>1. IsFiniteSet(S)
  BY SumIs
<1>2. \A i \in S : f[i] \in Int /\ g[i] = f[i]
  BY SignedIs
<1> HIDE DEF f, g
<1>3. SumFunctionOnSet(f, S) = SumFunctionOnSet(g, S)
  BY <1>1, <1>2, SumCongruent
<1> QED
  BY <1>3 DEF Net, f, g

LEMMA SumWith ==
  ASSUME NEW ts \in [Places -> Trade], NEW S \in SUBSET Places, NEW n \in Places \ S
  PROVE  Net(ts, S \cup {n}) = Signed(ts[n]) + Net(ts, S)
<1> DEFINE f == [i \in DOMAIN ts |-> Signed(ts[i])]
<1>1. IsFiniteSet(S)
  BY SumIs
<1>2. \A i \in S \cup {n} : f[i] \in Int
  BY SignedIs
<1>3. f[n] = Signed(ts[n])
  OBVIOUS
<1> HIDE DEF f
<1>4. SumFunctionOnSet(f, S \cup {n}) = f[n] + SumFunctionOnSet(f, S)
  BY <1>1, <1>2, SumAdd
<1> QED
  BY <1>3, <1>4 DEF Net, f

LEMMA HeldIs ==
  ASSUME NEW ts \in [Places -> Trade], NEW i
  PROVE  HeldBefore(ts, i) = Net(ts, Before(ts, i)) /\ Before(ts, i) \in SUBSET Places
BY DEF HeldBefore, Before, Of

(* The ledger of an asset whose rows stay the same folds as before. *)
LEMMA FoldsSame ==
  ASSUME NEW ts \in [Places -> Trade], NEW us \in [Places -> Trade], NEW a,
         \A i \in Of(ts, a) \cup Of(us, a) : us[i] = ts[i], Folds(ts, a)
  PROVE  Folds(us, a)
<1>1. Of(us, a) = Of(ts, a)
  BY DEF Of
<1>2. ASSUME NEW i \in Of(us, a) PROVE HeldBefore(us, i) = HeldBefore(ts, i)
  <2>1. us[i] = ts[i] /\ ts[i].terms.asset = a /\ us[i].terms.asset = a
    BY <1>2 DEF Of
  <2>2. Before(us, i) = Before(ts, i) /\ \A j \in Before(ts, i) : us[j] = ts[j]
    BY <1>1, <2>1 DEF Before
  <2> QED
    BY <2>2, HeldIs, SumSame
<1> QED
  BY <1>1, <1>2 DEF Folds

(* A purchase takes nothing from those that come after it. *)
LEMMA BuyFolds ==
  ASSUME NEW ts \in [Places -> Trade], NEW us \in [Places -> Trade], NEW a, NEW n \in Places,
         ts[n].terms.type = "none", us[n].terms.type = "buy",
         \A i \in Places \ {n} : us[i] = ts[i], Folds(ts, a)
  PROVE  Folds(us, a)
<1>1. ASSUME NEW i \in Of(us, a), i # n
      PROVE  i \in Of(ts, a) /\ us[i] = ts[i] /\ HeldBefore(us, i) >= HeldBefore(ts, i)
             /\ HeldBefore(us, i) \in Int /\ HeldBefore(ts, i) \in Int
  <2>1. i \in Places /\ us[i] = ts[i] /\ i \in Of(ts, a)
    BY <1>1 DEF Of
  <2>2. ts[i].terms.asset = a
    BY <2>1 DEF Of
  <2> DEFINE S == Before(ts, i)
  <2>3. S \in SUBSET Places /\ n \notin S
    BY HeldIs DEF Before, Of
  <2>4. Before(us, i) = S \/ Before(us, i) = S \cup {n}
    <3>1. Before(us, i) \ {n} = S
      BY <2>1, <2>2, <2>3 DEF Before, Of
    <3> QED
      BY <2>3, <3>1
  <2>5. Net(us, S) = Net(ts, S)
    BY <2>3, SumSame
  <2> HIDE DEF S
  <2>6. Net(us, S \cup {n}) = Signed(us[n]) + Net(us, S)
    BY <2>3, SumWith
  <2>7. Signed(us[n]) \in Int /\ Signed(us[n]) >= 0 /\ Net(ts, S) \in Int
    BY <2>3, SignedIs, SumIs
  <2>8. HeldBefore(ts, i) = Net(ts, S) /\ HeldBefore(us, i) = Net(us, Before(us, i))
    BY HeldIs DEF S
  <2>9. CASE Before(us, i) = S
    BY <2>1, <2>5, <2>7, <2>8, <2>9
  <2>10. CASE Before(us, i) = S \cup {n}
    <3>1. HeldBefore(us, i) = Signed(us[n]) + Net(ts, S)
      BY <2>5, <2>6, <2>8, <2>10
    <3> QED
      BY <2>1, <2>7, <2>8, <3>1
  <2> QED
    BY <2>4, <2>9, <2>10
<1> SUFFICES ASSUME NEW i \in Of(us, a)
             PROVE  /\ us[i].terms.type = "sell" => HeldBefore(us, i) >= us[i].terms.qty
                    /\ us[i].terms.type = "yield" => HeldBefore(us, i) > 0
  BY DEF Folds
<1>2. CASE i = n
  BY <1>2
<1>3. CASE i # n
  <2>1. /\ i \in Of(ts, a) /\ us[i] = ts[i] /\ HeldBefore(us, i) >= HeldBefore(ts, i)
        /\ HeldBefore(us, i) \in Int /\ HeldBefore(ts, i) \in Int
    BY <1>1, <1>3
  <2>2. us[i].terms.qty \in Nat
    BY <2>1 DEF Of, Trade, AnyTerms
  <2>3. /\ ts[i].terms.type = "sell" => HeldBefore(ts, i) >= ts[i].terms.qty
        /\ ts[i].terms.type = "yield" => HeldBefore(ts, i) > 0
    BY <2>1 DEF Folds
  <2> QED
    BY <2>1, <2>2, <2>3
<1> QED
  BY <1>2, <1>3

(* A sale that comes last sells of the whole position. *)
LEMMA SellFolds ==
  ASSUME NEW ts \in [Places -> Trade], NEW us \in [Places -> Trade], NEW a, NEW n \in Places,
         ts[n].terms.type = "none", us[n].terms.type = "sell", us[n].terms.asset = a,
         \A i \in Places \ {n} : us[i] = ts[i],
         \A i \in Of(ts, a) : i < n /\ ts[i].terms.date <= us[n].terms.date,
         us[n].terms.qty <= Position(ts, a), Folds(ts, a)
  PROVE  Folds(us, a)
<1>1. n \in Nat /\ us[n].terms.date \in Nat /\ \A i \in Places : i \in Nat /\ ts[i].terms.date \in Nat
  BY InvestmentAssumption DEF Places, Trade, AnyTerms
<1>2. Of(us, a) = Of(ts, a) \cup {n} /\ n \notin Of(ts, a)
  BY DEF Of
<1>3. Of(ts, a) \in SUBSET Places /\ \A i \in Of(ts, a) : us[i] = ts[i]
  BY <1>2 DEF Of
<1>4. HeldBefore(us, n) >= us[n].terms.qty
  <2>1. Before(us, n) = Of(ts, a)
    <3>1. ASSUME NEW j \in Of(ts, a) PROVE j \in Before(us, n)
      <4>1. /\ j \in Of(us, a) /\ us[j].terms.date = ts[j].terms.date
            /\ ts[j].terms.date \in Nat /\ ts[j].terms.date <= us[n].terms.date /\ j < n
        BY <1>1, <1>2, <1>3
      <4>2. us[j].terms.date < us[n].terms.date \/ us[j].terms.date = us[n].terms.date
        BY <1>1, <4>1
      <4> QED
        BY <4>1, <4>2 DEF Before
    <3>2. n \notin Before(us, n)
      BY <1>1 DEF Before
    <3>3. Before(us, n) \in SUBSET Of(us, a)
      BY DEF Before
    <3> QED
      BY <1>2, <3>1, <3>2, <3>3
  <2>2. HeldBefore(us, n) = Net(us, Of(ts, a)) /\ Net(us, Of(ts, a)) = Net(ts, Of(ts, a))
    BY <1>3, <2>1, HeldIs, SumSame
  <2>3. Net(ts, Of(ts, a)) \in Int /\ us[n].terms.qty \in Nat
    BY <1>3, SumIs DEF Trade, AnyTerms
  <2> QED
    BY <2>2, <2>3 DEF Position
<1>5. ASSUME NEW i \in Of(ts, a) PROVE HeldBefore(us, i) = HeldBefore(ts, i)
  <2>1. us[i] = ts[i] /\ ts[i].terms.asset = a /\ i \in Places
    BY <1>3 DEF Of
  <2>2. n \notin Before(us, i)
    <3>1. i \in Nat /\ i < n /\ ts[i].terms.date \in Nat /\ ts[i].terms.date <= us[n].terms.date
      BY <1>1, <2>1
    <3>2. ~(us[n].terms.date < us[i].terms.date) /\ ~(n < i)
      BY <1>1, <2>1, <3>1
    <3> QED
      BY <3>2 DEF Before
  <2>3. Before(us, i) = Before(ts, i)
    <3>1. Before(us, i) \in SUBSET Of(ts, a) /\ Before(ts, i) \in SUBSET Of(ts, a)
      BY <1>2, <2>1, <2>2 DEF Before
    <3>2. ASSUME NEW j \in Of(ts, a) PROVE j \in Before(us, i) <=> j \in Before(ts, i)
      BY <1>2, <1>3, <2>1 DEF Before
    <3> QED
      BY <3>1, <3>2
  <2>4. \A j \in Before(ts, i) : us[j] = ts[j]
    BY <1>3, <2>1 DEF Before
  <2> QED
    BY <2>3, <2>4, HeldIs, SumSame
<1> QED
  BY <1>2, <1>3, <1>4, <1>5 DEF Folds

--------------------------------------------------------------------------------
(* Steps of a wallet. *)

LEMMA NewPlaceIs ==
  ASSUME WalletTypes
  PROVE  /\ NewPlace \in Nat \ LivePlaces /\ \A i \in LivePlaces : i < NewPlace
<1> DEFINE S == {0} \cup LivePlaces
<1>1. MaxTrades \in Nat /\ S \in SUBSET Nat /\ S # {} /\ \A i \in S : i <= MaxTrades
  BY InvestmentAssumption DEF LivePlaces, Places
<1> HIDE DEF S
<1>2. Max(S) \in Nat /\ \A i \in S : i <= Max(S) /\ i \in Nat
  BY <1>1, LargestIs
<1>3. \A i \in LivePlaces : i \in S
  BY DEF S
<1> DEFINE m == Max(S)
<1>4. NewPlace = 1 + m
  BY DEF NewPlace, S
<1> HIDE DEF m
<1>5. m \in Nat /\ \A i \in S : i <= m /\ i \in Nat
  BY <1>2 DEF m
<1>6. \A i \in LivePlaces : i < NewPlace
  BY <1>3, <1>4, <1>5
<1> QED
  BY <1>4, <1>5, <1>6

LEMMA NewLegIs ==
  ASSUME WalletTypes
  PROVE  NewLeg \in Nat \ {0} /\ \A l \in legs : l.id < NewLeg
<1> DEFINE S == {0, pending.copy.leg} \cup {l.id : l \in legs}
<1>1. pending.copy.leg \in Nat /\ \A l \in legs : l.id \in Nat
  BY DEF WalletTypes, LegRow, TradeRequest, Trade
<1>2. PICK n \in Nat : pending.copy.leg <= n /\ \A l \in legs : l.id <= n
  BY DEF WalletTypes
<1>3. S \in SUBSET Nat /\ S # {} /\ \A i \in S : i <= n
  BY <1>1, <1>2
<1>4. \A l \in legs : l.id \in S
  OBVIOUS
<1> HIDE DEF S
<1> DEFINE m == Max(S)
<1>5. m \in S /\ \A i \in S : i <= m
  BY <1>3, LargestIs
<1>6. NewLeg = 1 + m
  BY DEF NewLeg, S
<1> HIDE DEF m
<1>7. m \in Nat /\ \A l \in legs : l.id <= m
  BY <1>3, <1>4, <1>5
<1> QED
  BY <1>1, <1>6, <1>7

(* Requests as they are validated. *)
LEMMA TermsTyped == Terms \in SUBSET AnyTerms
<1>1. TradeDates \subseteq Nat /\ Quantities \subseteq Nat
  BY InvestmentAssumption
<1> SUFFICES ASSUME NEW t \in Terms PROVE t \in AnyTerms
  OBVIOUS
<1>2. CASE t \in [type : Settled, asset : Assets, date : TradeDates, qty : Quantities]
  BY <1>1, <1>2 DEF AnyTerms
<1>3. CASE t \in [type : {"yield"}, asset : Assets, date : TradeDates, qty : {0}]
  <2>1. /\ t = [type |-> t.type, asset |-> t.asset, date |-> t.date, qty |-> t.qty]
        /\ t.type = "yield" /\ t.asset \in Assets /\ t.date \in TradeDates /\ t.qty = 0
    BY <1>3
  <2>2. t.date \in Nat /\ t.qty \in Nat
    BY <1>1, <2>1
  <2> QED
    BY <2>1, <2>2 DEF AnyTerms
<1> QED
  BY <1>2, <1>3 DEF Terms

LEMMA NoneTyped == NoTrade \in Trade /\ NoTerms \in AnyTerms /\ NoRequest \in TradeRequest
BY DEF NoTrade, Trade, NoTerms, AnyTerms, NoRequest, TradeRequest

LEMMA RequestsFit ==
  ASSUME WalletTypes, NEW r \in Creations \cup Updates \cup Deletions
  PROVE  /\ r \in TradeRequest /\ StillTrue(r) /\ r.stale = FALSE
         /\ r.copy = NoTrade \/ \E i \in Places : r.copy = trades[i]
<1>1. trades \in [Places -> Trade]
  BY DEF WalletTypes
<1>2. CASE r \in Creations
  <2>1. CASE \E t \in Terms : /\ Valid(trades, t)
                              /\ r = [NoRequest EXCEPT !.op = "create", !.terms = t,
                                        !.settles = cash /\ t.type \in Settled]
    <3>1. PICK t \in Terms : /\ Valid(trades, t)
                             /\ r = [NoRequest EXCEPT !.op = "create", !.terms = t,
                                       !.settles = cash /\ t.type \in Settled]
      BY <2>1
    <3> DEFINE b == cash /\ t.type \in Settled
    <3>2. b \in BOOLEAN
      OBVIOUS
    <3>3. r = [NoRequest EXCEPT !.op = "create", !.terms = t, !.settles = b]
      BY <3>1, Zenon
    <3> HIDE DEF b
    <3>4. t \in AnyTerms /\ NoTrade \in Trade
      BY TermsTyped, NoneTyped
    <3>5. /\ r \in TradeRequest /\ r.op = "create" /\ r.terms = t /\ r.copy = NoTrade
          /\ r.stale = FALSE
      BY <3>2, <3>3, <3>4 DEF NoRequest, TradeRequest
    <3> QED
      BY <3>1, <3>5 DEF StillTrue
  <2>2. CASE \E t \in Terms : /\ t.type = "buy"
                              /\ r = [NoRequest EXCEPT !.op = "create", !.terms = t,
                                        !.existing = TRUE]
    <3>1. PICK t \in Terms : /\ t.type = "buy"
                             /\ r = [NoRequest EXCEPT !.op = "create", !.terms = t,
                                       !.existing = TRUE]
      BY <2>2
    <3>2. t \in AnyTerms /\ NoTrade \in Trade
      BY TermsTyped, NoneTyped
    <3>3. /\ r \in TradeRequest /\ r.op = "create" /\ r.terms = t /\ r.copy = NoTrade
          /\ r.stale = FALSE
      BY <3>1, <3>2 DEF NoRequest, TradeRequest
    <3> QED
      BY <3>1, <3>3 DEF StillTrue
  <2> QED
    BY <1>2, <2>1, <2>2 DEF Creations
<1>3. CASE r \in Updates
  <2> DEFINE Patch(i, t) == [NoRequest EXCEPT !.op = "update", !.place = i, !.copy = trades[i],
                            !.terms = t, !.settles = cash /\ t.type \in Settled]
             Fit(i) == {t \in Terms \ {trades[i].terms} :
                          (trades[i].existing => t.type = "buy") /\ Valid(Without(i), t)}
  <2>1. PICK i \in LivePlaces, t \in Terms : r = Patch(i, t)
    <3>1. r \in UNION {{Patch(i, t) : t \in Fit(i)} : i \in LivePlaces}
      BY <1>3, Zenon DEF Updates
    <3>2. \A i : Fit(i) \in SUBSET Terms
      OBVIOUS
    <3> HIDE DEF Patch, Fit
    <3> QED
      BY <3>1, <3>2
  <2> DEFINE b == cash /\ t.type \in Settled
  <2>2. t \in AnyTerms /\ i \in Places /\ trades[i] \in Trade /\ b \in BOOLEAN
    BY <1>1, TermsTyped DEF LivePlaces
  <2>3. r = [NoRequest EXCEPT !.op = "update", !.place = i, !.copy = trades[i], !.terms = t,
               !.settles = b]
    BY <2>1, Zenon
  <2> HIDE DEF b
  <2>4. /\ r \in TradeRequest /\ r.op = "update" /\ r.terms = t /\ r.copy = trades[i]
        /\ r.place = i /\ r.stale = FALSE
    BY <2>2, <2>3 DEF NoRequest, TradeRequest
  <2> QED
    BY <2>2, <2>4 DEF StillTrue
<1>4. CASE r \in Deletions
  <2>1. PICK i \in LivePlaces :
          r = [NoRequest EXCEPT !.op = "delete", !.place = i, !.copy = trades[i]]
    BY <1>4 DEF Deletions
  <2>2. i \in Places /\ trades[i] \in Trade /\ NoTerms \in AnyTerms
    BY <1>1, NoneTyped DEF LivePlaces
  <2>3. /\ r \in TradeRequest /\ r.op = "delete" /\ r.copy = trades[i]
        /\ r.place = i /\ r.stale = FALSE
    BY <2>1, <2>2 DEF NoRequest, TradeRequest
  <2> QED
    BY <2>1, <2>2, <2>3 DEF StillTrue
<1> QED
  BY <1>2, <1>3, <1>4

(* A trade is written with its leg: the old leg is gone, and there is       *)
(* either none now, or a new one that says what the trade settles.          *)
LEMMA Resettles ==
  ASSUME WalletTypes, LegsMatch, NEW i \in Places, NEW x \in Trade, NEW N,
         \A j \in Places : trades'[j] = IF j = i THEN x ELSE trades[j],
         legs' = {l \in legs : l.id # trades[i].leg} \cup N,
         \/ N = {} /\ x.leg = 0
         \/ /\ x.leg \in Nat \ {0} /\ \A l \in legs : l.id < x.leg
            /\ x.terms.type # "none" /\ N = {Leg(x.leg, x.terms)}
  PROVE  LegsMatch'
<1>1. /\ \A l \in legs : l.id \in Nat \ {0}
      /\ \A j \in Places : trades[j].leg \in Nat
  BY DEF WalletTypes, LegRow, Trade
<1>2. x.leg = 0 \/ \A l \in legs : l.id # x.leg
  BY <1>1
<1>3. ASSUME NEW l \in legs, l.id # trades[i].leg
      PROVE  \E j \in Places : /\ {k \in Places : trades'[k].leg = l.id} = {j}
                               /\ l.own \/ Leg(l.id, trades'[j].terms) = l
  <2>1. PICK j \in Places : /\ {k \in Places : trades[k].leg = l.id} = {j}
                            /\ l.own \/ Leg(l.id, trades[j].terms) = l
    BY DEF LegsMatch
  <2>2. trades[j].leg = l.id /\ j # i
    BY <1>3, <2>1
  <2>3. x.leg # l.id
    BY <1>1, <1>2
  <2>4. {k \in Places : trades'[k].leg = l.id} = {j}
    BY <2>1, <2>2, <2>3
  <2>5. trades'[j] = trades[j]
    BY <2>2
  <2> QED
    BY <2>1, <2>4, <2>5
<1>4. ASSUME NEW l \in N
      PROVE  \E j \in Places : /\ {k \in Places : trades'[k].leg = l.id} = {j}
                               /\ l.own \/ Leg(l.id, trades'[j].terms) = l
  <2>1. /\ x.leg \in Nat \ {0} /\ \A m \in legs : m.id < x.leg
        /\ l = Leg(x.leg, x.terms)
    BY <1>4
  <2>2. l.id = x.leg
    BY <2>1 DEF Leg
  <2>3. \A k \in Places : trades[k].leg # x.leg
    BY <1>1, <2>1 DEF LegsMatch
  <2>4. {k \in Places : trades'[k].leg = l.id} = {i}
    BY <2>2, <2>3
  <2>5. trades'[i] = x
    OBVIOUS
  <2> QED
    BY <2>1, <2>2, <2>4, <2>5
<1>5. ASSUME NEW k \in Places, trades'[k].leg # 0
      PROVE  trades'[k].terms.type # "none" /\ \E l \in legs' : l.id = trades'[k].leg
  <2>1. CASE k = i
    <3>1. trades'[k] = x
      BY <2>1
    <3>2. x.terms.type # "none" /\ N = {Leg(x.leg, x.terms)}
      BY <1>5, <3>1
    <3>3. Leg(x.leg, x.terms) \in legs' /\ Leg(x.leg, x.terms).id = x.leg
      BY <3>2 DEF Leg
    <3> QED
      BY <3>1, <3>2, <3>3
  <2>2. CASE k # i
    <3>1. trades'[k] = trades[k]
      BY <2>2
    <3>2. trades[k].terms.type # "none" /\ \E l \in legs : l.id = trades[k].leg
      BY <1>5, <3>1 DEF LegsMatch
    <3>3. PICK l \in legs : l.id = trades[k].leg
      BY <3>2
    <3>4. PICK j \in Places : {m \in Places : trades[m].leg = l.id} = {j}
      BY DEF LegsMatch
    <3>5. l.id # trades[i].leg
      BY <2>2, <3>3, <3>4
    <3>6. l \in legs'
      BY <3>5
    <3> QED
      BY <3>1, <3>2, <3>3, <3>6
  <2> QED
    BY <2>1, <2>2
<1>6. ASSUME NEW l \in legs'
      PROVE  \E j \in Places : /\ {k \in Places : trades'[k].leg = l.id} = {j}
                               /\ l.own \/ Leg(l.id, trades'[j].terms) = l
  BY <1>3, <1>4
<1> QED
  BY <1>5, <1>6 DEF LegsMatch

(* Columns that did not change are those of the row, all of them when the   *)
(* row is the one that was loaded.                                          *)
LEMMA Columns ==
  ASSUME NEW t \in AnyTerms, NEW copy \in AnyTerms, NEW now \in AnyTerms
  PROVE  LET new == [f \in DOMAIN NoTerms |-> IF t[f] # copy[f] THEN t[f] ELSE now[f]] IN
         new \in AnyTerms /\ (copy = now => new = t)
<1> DEFINE new == [f \in DOMAIN NoTerms |-> IF t[f] # copy[f] THEN t[f] ELSE now[f]]
<1>1. DOMAIN NoTerms = {"type", "asset", "date", "qty"}
  BY DEF NoTerms
<1>2. \A f \in DOMAIN NoTerms : new[f] = t[f] \/ new[f] = now[f]
  OBVIOUS
<1>3. /\ new["type"] \in Settled \cup {"yield", "none"} /\ new["asset"] \in Assets \cup {"none"}
      /\ new["date"] \in Nat /\ new["qty"] \in Nat
  BY <1>1, <1>2 DEF AnyTerms
<1>4. new = [type |-> new["type"], asset |-> new["asset"], date |-> new["date"],
             qty |-> new["qty"]]
  BY <1>1
<1>5. new \in AnyTerms
  <2> HIDE DEF new
  <2> QED
    BY <1>3, <1>4 DEF AnyTerms
<1>6. ASSUME copy = now PROVE new = t
  <2>1. \A f \in DOMAIN NoTerms : new[f] = t[f]
    BY <1>6
  <2>2. t = [type |-> t["type"], asset |-> t["asset"], date |-> t["date"], qty |-> t["qty"]]
    BY DEF AnyTerms
  <2> HIDE DEF new
  <2> QED
    BY <1>1, <1>4, <2>1, <2>2
<1> QED
  BY <1>5, <1>6

(* What a request writes is a row. *)
LEMMA UpdatedRow ==
  ASSUME WalletTypes, NEW r \in TradeRequest, Update(r)
  PROVE  \E x \in Trade :
           /\ r.place \in Places /\ \A j \in Places : Updated(r)[j] = IF j = r.place THEN x ELSE trades[j]
           /\ Updated(r) \in [Places -> Trade]
           /\ x.leg = IF ~Resettled(r) THEN trades[r.place].leg
                      ELSE IF r.settles THEN NewLeg ELSE 0
           /\ r.copy = trades[r.place] => x.terms = r.terms
<1> DEFINE now == trades[r.place]
           x == [terms |-> [f \in DOMAIN NoTerms |->
                              IF r.terms[f] # r.copy.terms[f] THEN r.terms[f] ELSE now.terms[f]],
                 existing |-> now.existing,
                 leg |-> IF ~Resettled(r) THEN now.leg ELSE IF r.settles THEN NewLeg ELSE 0]
<1>1. trades \in [Places -> Trade] /\ r.place \in Places
  BY DEF WalletTypes, Update, LivePlaces
<1>2. now \in Trade /\ now.terms \in AnyTerms /\ r.terms \in AnyTerms /\ r.copy.terms \in AnyTerms
  BY <1>1 DEF Trade, TradeRequest
<1>3. NewLeg \in Nat
  BY NewLegIs
<1>4. x.terms \in AnyTerms /\ (r.copy = now => x.terms = r.terms)
  BY <1>2, Columns
<1>5. x \in Trade
  BY <1>2, <1>3, <1>4 DEF Trade
<1>6. Updated(r) = [trades EXCEPT ![r.place] = x]
  BY DEF Updated
<1>7. x.leg = IF ~Resettled(r) THEN now.leg ELSE IF r.settles THEN NewLeg ELSE 0
  OBVIOUS
<1> HIDE DEF x
<1> QED
  BY <1>1, <1>4, <1>5, <1>6, <1>7

LEMMA CreatedRow ==
  ASSUME WalletTypes, NEW r \in TradeRequest, NewPlace \in Places
  PROVE  \E x \in Trade :
           /\ \A j \in Places : Created(r)[j] = IF j = NewPlace THEN x ELSE trades[j]
           /\ Created(r) \in [Places -> Trade]
           /\ x.terms = r.terms /\ x.leg = IF r.settles THEN NewLeg ELSE 0
<1> DEFINE x == [terms |-> r.terms, existing |-> r.existing, leg |-> IF r.settles THEN NewLeg ELSE 0]
<1>1. trades \in [Places -> Trade] /\ NewLeg \in Nat
  BY NewLegIs DEF WalletTypes
<1>2. x \in Trade
  BY <1>1 DEF Trade, TradeRequest
<1>3. Created(r) = [trades EXCEPT ![NewPlace] = x]
  BY DEF Created
<1>4. x.terms = r.terms /\ x.leg = IF r.settles THEN NewLeg ELSE 0
  OBVIOUS
<1> HIDE DEF x
<1> QED
  BY <1>1, <1>2, <1>3, <1>4

LEMMA WithoutRow ==
  ASSUME WalletTypes, NEW i \in Places
  PROVE  /\ \A j \in Places : Without(i)[j] = IF j = i THEN NoTrade ELSE trades[j]
         /\ Without(i) \in [Places -> Trade] /\ NoTrade \in Trade
         /\ NoTrade.leg = 0 /\ NoTrade.terms.type = "none"
<1>1. NoTrade \in Trade /\ NoTrade.leg = 0 /\ NoTrade.terms.type = "none"
  BY NoneTyped DEF NoTrade, NoTerms
<1> QED
  BY <1>1 DEF Without, WalletTypes

LEMMA NewLegs ==
  ASSUME WalletTypes, NEW r \in TradeRequest
  PROVE  /\ \A l \in LegOf(r) : l.id = NewLeg
         /\ LegOf(r) = IF r.settles THEN {Leg(NewLeg, r.terms)} ELSE {}
         /\ LegOf(r) \in SUBSET LegRow
<1>1. Leg(NewLeg, r.terms) \in LegRow
  BY NewLegIs DEF Leg, LegRow, TradeRequest, AnyTerms
<1> QED
  BY <1>1 DEF LegOf, Leg

(* Whatever a request writes is a row, and ids of legs stay bounded.        *)
LEMMA CommitTypes ==
  ASSUME WalletTypes, NEW r \in TradeRequest, Create(r) \/ Update(r) \/ Delete(r),
         pending' \in TradeRequest, pending'.copy = pending.copy \/ pending'.copy = NoTrade
  PROVE  WalletTypes'
<1>1. NewLeg \in Nat \ {0} /\ trades \in [Places -> Trade]
  BY NewLegIs DEF WalletTypes
<1>2. PICK n \in Nat : /\ pending.copy.leg <= n /\ \A l \in legs : l.id <= n
                       /\ \A i \in Places : trades[i].leg <= n
  BY DEF WalletTypes
<1> DEFINE m == n + NewLeg
<1>3. /\ trades' \in [Places -> Trade]
      /\ \A i \in Places : trades'[i].leg \in {trades[i].leg, NewLeg, 0}
  <2>1. CASE Create(r)
    <3>1. NewPlace \in Places /\ trades' = Created(r)
      BY <2>1 DEF Create
    <3> QED
      BY <3>1, CreatedRow
  <2>2. CASE Update(r)
    <3>1. trades' = Updated(r)
      BY <2>2 DEF Update
    <3> QED
      BY <2>2, <3>1, UpdatedRow
  <2>3. CASE Delete(r)
    <3>1. trades' = Without(r.place)
      BY <2>3 DEF Delete
    <3>2. CASE r.place \in Places
      BY <3>1, <3>2, WithoutRow
    <3>3. CASE r.place \notin Places
      <4>1. Without(r.place) = trades
        BY <1>1, <3>3 DEF Without
      <4> QED
        BY <1>1, <3>1, <4>1
    <3> QED
      BY <3>2, <3>3
  <2> QED
    BY <2>1, <2>2, <2>3
<1>4. \A l \in legs' : l \in legs \/ l.id = NewLeg
  BY NewLegs DEF Create, Update, Delete
<1>5. legs' \in SUBSET LegRow /\ \A l \in legs \cup legs' : l.id \in Nat \ {0}
  <2>1. legs' \in SUBSET (legs \cup LegOf(r))
    BY DEF Create, Update, Delete
  <2>2. legs' \in SUBSET LegRow /\ legs \in SUBSET LegRow
    BY <2>1, NewLegs DEF WalletTypes
  <2> QED
    BY <2>2 DEF LegRow
<1>6. pending'.copy.leg \in Nat /\ pending'.copy.leg <= n
  <2>1. NoTrade.leg = 0 /\ pending.copy.leg \in Nat
    BY DEF NoTrade, WalletTypes, TradeRequest, Trade
  <2> QED
    BY <1>2, <2>1
<1>7. \A i \in Places : trades'[i].leg \in Nat /\ trades[i].leg \in Nat
  BY <1>1, <1>3 DEF Trade
<1>8. m \in Nat /\ n <= m /\ NewLeg <= m /\ 0 <= m
  BY <1>1
<1> HIDE DEF m
<1>9. \A i \in Places : trades'[i].leg <= m
  <2> SUFFICES ASSUME NEW i \in Places PROVE trades'[i].leg <= m
    OBVIOUS
  <2>1. trades[i].leg <= n /\ trades[i].leg \in Nat /\ trades'[i].leg \in {trades[i].leg, NewLeg, 0}
    BY <1>2, <1>3, <1>7
  <2> QED
    BY <1>8, <2>1
<1>10. \A l \in legs' : l.id \in Nat \ {0} /\ l.id <= m
  <2> SUFFICES ASSUME NEW l \in legs' PROVE l.id \in Nat \ {0} /\ l.id <= m
    OBVIOUS
  <2>1. l.id = NewLeg \/ (l.id \in Nat \ {0} /\ l.id <= n)
    BY <1>2, <1>4, <1>5
  <2> QED
    BY <1>1, <1>8, <2>1
<1>11. pending'.copy.leg <= m
  BY <1>6, <1>8
<1> QED
  BY <1>3, <1>5, <1>8, <1>9, <1>10, <1>11 DEF WalletTypes

(* A request whose validation still holds keeps legs and trades together.   *)
LEMMA CommitLegs ==
  ASSUME WalletTypes, LegsMatch, NEW r \in TradeRequest, StillTrue(r),
         Create(r) \/ Update(r) \/ Delete(r)
  PROVE  LegsMatch'
<1>1. NewLeg \in Nat \ {0} /\ \A l \in legs : l.id < NewLeg /\ l.id # 0
  BY NewLegIs DEF WalletTypes, LegRow
<1>2. \A t \in Terms : t.type # "none"
  BY DEF Terms, Settled
<1>3. CASE Create(r)
  <2>1. /\ r.op = "create" /\ NewPlace \in Places /\ trades' = Created(r)
        /\ legs' = legs \cup LegOf(r)
    BY <1>3 DEF Create
  <2>2. PICK x \in Trade :
           /\ \A j \in Places : Created(r)[j] = IF j = NewPlace THEN x ELSE trades[j]
           /\ x.terms = r.terms /\ x.leg = IF r.settles THEN NewLeg ELSE 0
    BY <2>1, CreatedRow
  <2>3. trades[NewPlace].leg = 0
    <3>1. trades[NewPlace].terms.type = "none"
      BY <2>1, NewPlaceIs DEF LivePlaces
    <3> QED
      BY <2>1, <3>1 DEF LegsMatch
  <2>4. legs' = {l \in legs : l.id # trades[NewPlace].leg} \cup LegOf(r)
    BY <1>1, <2>1, <2>3
  <2>5. x.terms.type # "none"
    BY <1>2, <2>1, <2>2 DEF StillTrue
  <2>6. \/ LegOf(r) = {} /\ x.leg = 0
        \/ x.leg = NewLeg /\ LegOf(r) = {Leg(x.leg, x.terms)}
    BY <2>2, NewLegs
  <2> QED
    BY <1>1, <2>1, <2>2, <2>4, <2>5, <2>6, Resettles
<1>4. CASE Update(r)
  <2>1. /\ r.op = "update" /\ trades' = Updated(r)
        /\ legs' = IF Resettled(r) THEN {l \in legs : l.id # r.copy.leg} \cup LegOf(r) ELSE legs
    BY <1>4 DEF Update
  <2>2. PICK x \in Trade :
          /\ r.place \in Places
          /\ \A j \in Places : Updated(r)[j] = IF j = r.place THEN x ELSE trades[j]
          /\ x.leg = IF ~Resettled(r) THEN trades[r.place].leg
                     ELSE IF r.settles THEN NewLeg ELSE 0
          /\ r.copy = trades[r.place] => x.terms = r.terms
    BY <1>4, UpdatedRow
  <2>3. r.copy = trades[r.place] /\ x.terms = r.terms /\ x.terms.type # "none"
    BY <1>2, <2>1, <2>2 DEF StillTrue
  <2>4. CASE Resettled(r)
    <3>1. legs' = {l \in legs : l.id # trades[r.place].leg} \cup LegOf(r)
      BY <2>1, <2>3, <2>4
    <3>2. \/ LegOf(r) = {} /\ x.leg = 0
          \/ x.leg = NewLeg /\ LegOf(r) = {Leg(x.leg, x.terms)}
      BY <2>2, <2>3, <2>4, NewLegs
    <3> QED
      BY <1>1, <2>1, <2>2, <2>3, <3>1, <3>2, Resettles
  <2>5. CASE ~Resettled(r)
    <3>1. legs' = legs /\ x.leg = trades[r.place].leg
      BY <2>1, <2>2, <2>5
    <3>2. \A j \in Places : trades'[j].leg = trades[j].leg
      BY <2>1, <2>2, <3>1
    <3>3. \A c : {j \in Places : trades'[j].leg = c} = {j \in Places : trades[j].leg = c}
      BY <3>2
    <3>4. ASSUME NEW j \in Places, trades[j].leg # 0
          PROVE  /\ \A c : Leg(c, trades'[j].terms) = Leg(c, trades[j].terms)
                 /\ trades'[j].terms.type # "none"
      <4>1. CASE j = r.place
        <5>1. r.copy.leg # 0 /\ trades'[j].terms = r.terms /\ trades[j].terms = r.copy.terms
          BY <2>1, <2>2, <2>3, <3>4, <4>1
        <5>2. \A f \in {"type", "date", "qty"} : r.terms[f] = r.copy.terms[f]
          BY <2>5, <5>1 DEF Resettled
        <5>3. /\ r.terms.type = r.copy.terms.type /\ r.terms.date = r.copy.terms.date
              /\ r.terms.qty = r.copy.terms.qty
          BY <5>2
        <5> QED
          BY <2>3, <5>1, <5>3 DEF Leg
      <4>2. CASE j # r.place
        BY <2>1, <2>2, <3>4, <4>2 DEF LegsMatch
      <4> QED
        BY <4>1, <4>2
    <3>5. ASSUME NEW l \in legs
          PROVE  \E i \in Places : /\ {j \in Places : trades'[j].leg = l.id} = {i}
                                   /\ l.own \/ Leg(l.id, trades'[i].terms) = l
      <4>1. PICK i \in Places : /\ {j \in Places : trades[j].leg = l.id} = {i}
                                /\ l.own \/ Leg(l.id, trades[i].terms) = l
        BY DEF LegsMatch
      <4>2. trades[i].leg # 0
        BY <1>1, <4>1
      <4> QED
        BY <3>3, <3>4, <4>1, <4>2
    <3>6. \A j \in Places : trades'[j].leg # 0 => /\ trades'[j].terms.type # "none"
                                                  /\ \E l \in legs : l.id = trades'[j].leg
      BY <3>2, <3>4 DEF LegsMatch
    <3> QED
      BY <3>1, <3>5, <3>6 DEF LegsMatch
  <2> QED
    BY <2>4, <2>5
<1>5. CASE Delete(r)
  <2>1. /\ r.op = "delete" /\ trades' = Without(r.place)
        /\ legs' = {l \in legs : l.id # r.copy.leg}
    BY <1>5 DEF Delete
  <2>2. r.copy = trades[r.place] /\ r.place \in Places
    BY <2>1 DEF StillTrue, LivePlaces
  <2> PICK N : N = {}
    OBVIOUS
  <2>3. legs' = {l \in legs : l.id # trades[r.place].leg} \cup N
    BY <2>1, <2>2
  <2>4. /\ NoTrade \in Trade /\ NoTrade.leg = 0
        /\ \A j \in Places : trades'[j] = IF j = r.place THEN NoTrade ELSE trades[j]
    BY <2>1, <2>2, WithoutRow
  <2> QED
    BY <2>2, <2>3, <2>4, Resettles
<1> QED
  BY <1>3, <1>4, <1>5

(* One row changed: every other asset folds as before.                      *)
LEMMA OthersFold ==
  ASSUME NEW ts \in [Places -> Trade], NEW us \in [Places -> Trade], NEW i \in Places, NEW a,
         \A j \in Places \ {i} : us[j] = ts[j],
         ts[i].terms.type = "none" \/ ts[i].terms.asset # a,
         us[i].terms.type = "none" \/ us[i].terms.asset # a, Folds(ts, a)
  PROVE  Folds(us, a)
<1>1. \A j \in Of(ts, a) \cup Of(us, a) : us[j] = ts[j]
  BY DEF Of
<1> QED
  BY <1>1, FoldsSame

(* ... and leaves ledgers that fold, unless it is a sale behind later       *)
(* trades.                                                                  *)
LEMMA CommitFolds ==
  ASSUME WalletTypes, NEW r \in TradeRequest, StillTrue(r), Create(r) \/ Update(r) \/ Delete(r),
         WalletTypes', ~backdated', NEW a \in Assets, Folds(trades, a)
  PROVE  Folds(trades', a)
<1>1. trades \in [Places -> Trade] /\ trades' \in [Places -> Trade]
  BY DEF WalletTypes
<1>2. CASE Create(r)
  <2> DEFINE n == NewPlace
  <2>1. /\ r.op = "create" /\ n \in Places /\ trades' = Created(r)
        /\ r.terms.type = "yield" => Folds(trades', r.terms.asset)
        /\ r.terms.type = "sell" => \A i \in Of(trades, r.terms.asset) :
                                      ~(trades[i].terms.date > r.terms.date)
    BY <1>2 DEF Create
  <2>2. /\ trades'[n].terms = r.terms /\ \A j \in Places \ {n} : trades'[j] = trades[j]
    BY <2>1, CreatedRow
  <2>3. trades[n].terms.type = "none" /\ \A i \in LivePlaces : i < n
    BY <2>1, NewPlaceIs DEF LivePlaces
  <2>4. r.terms \in Terms /\ (r.terms.type = "sell" => Valid(trades, r.terms))
    BY <2>1 DEF StillTrue
  <2>5. r.terms.type \in {"buy", "sell", "yield"}
    BY <2>4 DEF Terms, Settled
  <2> HIDE DEF n
  <2>6. CASE r.terms.asset # a
    BY <1>1, <2>1, <2>2, <2>3, <2>6, OthersFold
  <2>7. CASE r.terms.asset = a
    <3>1. CASE r.terms.type = "buy"
      BY <1>1, <2>1, <2>2, <2>3, <3>1, BuyFolds
    <3>2. CASE r.terms.type = "sell"
      <4>1. r.terms.qty <= Position(trades, a)
        BY <2>4, <2>7, <3>2 DEF Valid
      <4>2. ASSUME NEW i \in Of(trades, a)
            PROVE  i < n /\ trades[i].terms.date <= trades'[n].terms.date
        <5>1. i \in Places /\ trades[i].terms.type # "none"
          BY <1>1 DEF Of
        <5>2. i < n
          BY <2>3, <5>1 DEF LivePlaces
        <5>3. trades[i].terms.date \in Nat /\ r.terms.date \in Nat
          BY <1>1, <5>1 DEF Trade, AnyTerms, TradeRequest
        <5>4. ~(trades[i].terms.date > r.terms.date)
          BY <2>1, <2>7, <3>2
        <5> QED
          BY <2>2, <5>2, <5>3, <5>4
      <4> QED
        BY <1>1, <2>1, <2>2, <2>3, <2>7, <3>2, <4>1, <4>2, SellFolds
    <3>3. CASE r.terms.type = "yield"
      BY <2>1, <2>7, <3>3
    <3> QED
      BY <2>5, <3>1, <3>2, <3>3
  <2> QED
    BY <2>6, <2>7
<1>3. CASE Update(r)
  <2>1. /\ r.op = "update" /\ trades' = Updated(r)
        /\ \A b \in {r.copy.terms.asset, trades'[r.place].terms.asset} : Folds(trades', b)
    BY <1>3 DEF Update
  <2>2. r.place \in Places /\ \A j \in Places \ {r.place} : trades'[j] = trades[j]
    BY <1>3, <2>1, UpdatedRow
  <2>3. r.copy = trades[r.place]
    BY <2>1 DEF StillTrue
  <2>4. CASE a \in {trades[r.place].terms.asset, trades'[r.place].terms.asset}
    BY <2>1, <2>3, <2>4
  <2>5. CASE a \notin {trades[r.place].terms.asset, trades'[r.place].terms.asset}
    BY <1>1, <2>2, <2>5, OthersFold
  <2> QED
    BY <2>4, <2>5
<1>4. CASE Delete(r)
  <2>1. r.op = "delete" /\ trades' = Without(r.place) /\ Folds(trades', r.copy.terms.asset)
    BY <1>4 DEF Delete
  <2>2. r.copy = trades[r.place] /\ r.place \in Places
    BY <2>1 DEF StillTrue, LivePlaces
  <2>3. /\ \A j \in Places \ {r.place} : trades'[j] = trades[j]
        /\ trades'[r.place].terms.type = "none"
    BY <2>1, <2>2, WithoutRow
  <2>4. CASE a = trades[r.place].terms.asset
    BY <2>1, <2>2, <2>4
  <2>5. CASE a # trades[r.place].terms.asset
    BY <1>1, <2>2, <2>3, <2>5, OthersFold
  <2> QED
    BY <2>4, <2>5
<1> QED
  BY <1>2, <1>3, <1>4

(* A request that is validated and one that commits, in any order.          *)
LEMMA BeginKeeps ==
  ASSUME WalletInv, NEW r \in Creations \cup Updates \cup Deletions, Begin(r)
  PROVE  WalletInv'
<1>1. WalletTypes
  BY DEF WalletInv
<1>2. /\ pending' = r /\ UNCHANGED <<trades, legs, cash, commits, overlapped, backdated>>
  BY DEF Begin
<1>3. /\ r \in TradeRequest /\ StillTrue(r)
      /\ r.copy = NoTrade \/ \E i \in Places : r.copy = trades[i]
  BY <1>1, RequestsFit
<1>4. WalletTypes'
  <2>1. PICK n \in Nat : /\ pending.copy.leg <= n /\ \A l \in legs : l.id <= n
                         /\ \A i \in Places : trades[i].leg <= n
    BY <1>1 DEF WalletTypes
  <2>2. r.copy.leg <= n
    <3>1. NoTrade.leg = 0
      BY DEF NoTrade
    <3> QED
      BY <1>3, <2>1, <3>1
  <2> QED
    BY <1>1, <1>2, <1>3, <2>1, <2>2 DEF WalletTypes
<1>5. StillTrue(pending)'
  BY <1>2, <1>3 DEF StillTrue, LivePlaces
<1> QED
  BY <1>2, <1>4, <1>5 DEF WalletInv, LegsMatch

LEMMA CommitKeeps ==
  ASSUME WalletInv, NEW r \in TradeRequest, Commit(r), UNCHANGED cash,
         pending' \in TradeRequest, pending'.copy = pending.copy \/ pending'.copy = NoTrade,
         pending' = NoRequest \/ pending'.stale,
         ~overlapped' => ~overlapped /\ StillTrue(r)
  PROVE  WalletInv'
<1>1. WalletTypes /\ (Create(r) \/ Update(r) \/ Delete(r))
  BY DEF WalletInv, Commit
<1>2. WalletTypes'
  BY <1>1, CommitTypes
<1>3. ~overlapped' => LegsMatch'
  BY <1>1, CommitLegs DEF WalletInv
<1>4. backdated => backdated'
  BY <1>1 DEF Create, Update, Delete
<1>5. ASSUME ~overlapped', ~backdated', NEW a \in Assets PROVE Folds(trades', a)
  <2>1. Folds(trades, a) /\ StillTrue(r)
    BY <1>4, <1>5 DEF WalletInv
  <2> QED
    BY <1>1, <1>2, <1>5, <2>1, CommitFolds
<1> QED
  BY <1>2, <1>3, <1>5 DEF WalletInv

LEMMA WalletStarts ==
  ASSUME InvestInit
  PROVE  WalletInv
<1>1. /\ trades = [i \in Places |-> NoTrade] /\ legs = {} /\ pending = NoRequest
  BY DEF InvestInit
<1>2. NoTrade \in Trade /\ NoRequest \in TradeRequest
  BY NoneTyped
<1>3. NoTrade.leg = 0 /\ NoTrade.terms.type = "none" /\ NoRequest.copy = NoTrade
  BY DEF NoTrade, NoTerms, NoRequest
<1>4. WalletTypes
  BY <1>1, <1>2, <1>3 DEF WalletTypes
<1>5. LegsMatch
  BY <1>1, <1>3 DEF LegsMatch
<1>6. \A a : Folds(trades, a)
  BY <1>1, <1>3 DEF Folds, Of
<1> QED
  BY <1>1, <1>4, <1>5, <1>6 DEF WalletInv

LEMMA WalletStep ==
  ASSUME WalletInv, [InvestNext]_investVars
  PROVE  WalletInv'
<1>1. WalletTypes /\ pending \in TradeRequest
  BY DEF WalletInv, WalletTypes
<1>2. ASSUME NEW r \in Creations \cup Updates \cup Deletions, AtOnce(r)
      PROVE  WalletInv'
  <2> DEFINE b == pending # NoRequest
  <2>1. Commit(r) /\ UNCHANGED <<cash, overlapped>> /\ pending' = [pending EXCEPT !.stale = b]
    BY <1>2, Zenon DEF AtOnce
  <2>2. r \in TradeRequest /\ StillTrue(r)
    BY <1>1, RequestsFit
  <2>3. b \in BOOLEAN /\ (~b => pending = NoRequest /\ pending.stale = FALSE)
    BY DEF NoRequest
  <2> HIDE DEF b
  <2>4. /\ pending' \in TradeRequest /\ pending'.copy = pending.copy /\ pending'.stale = b
        /\ ~b => pending' = pending
    BY <1>1, <2>1, <2>3 DEF TradeRequest
  <2>5. pending' = NoRequest \/ pending'.stale
    BY <2>3, <2>4
  <2> QED
    BY <2>1, <2>2, <2>4, <2>5, CommitKeeps
<1>3. CASE \E r \in Creations \cup Updates \cup Deletions : Begin(r) \/ AtOnce(r)
  BY <1>2, <1>3, BeginKeeps
<1>4. CASE Finish
  <2>1. /\ Commit(pending) /\ pending' = NoRequest /\ UNCHANGED cash
        /\ ~overlapped' => ~overlapped /\ ~pending.stale
    BY <1>4 DEF Finish
  <2>2. pending # NoRequest
    BY <2>1 DEF Commit, Create, Update, Delete, NoRequest
  <2>3. ~overlapped' => ~overlapped /\ StillTrue(pending)
    BY <2>1, <2>2 DEF WalletInv
  <2>4. NoRequest \in TradeRequest /\ NoRequest.copy = NoTrade
    BY NoneTyped DEF NoRequest
  <2> QED
    BY <1>1, <2>1, <2>3, <2>4, CommitKeeps
<1>5. CASE GiveUp
  <2>1. pending' = NoRequest /\ UNCHANGED <<trades, legs, cash, commits, overlapped, backdated>>
    BY <1>5 DEF GiveUp
  <2>2. NoRequest \in TradeRequest /\ NoRequest.copy.leg = 0
    BY NoneTyped DEF NoRequest, NoTrade
  <2>3. WalletTypes'
    BY <1>1, <2>1, <2>2 DEF WalletTypes
  <2> QED
    BY <2>1, <2>3 DEF WalletInv, LegsMatch
<1>6. CASE ChangeCashAccount
  <2>1. UNCHANGED <<trades, legs, pending, overlapped, backdated>>
    BY <1>6 DEF ChangeCashAccount
  <2>2. StillTrue(pending) => StillTrue(pending)'
    BY <2>1 DEF StillTrue, LivePlaces
  <2> QED
    BY <2>1, <2>2 DEF WalletInv, WalletTypes, LegsMatch
<1>7. CASE \E l \in legs : EditLeg(l)
  <2>1. PICK l \in legs : EditLeg(l)
    BY <1>7
  <2> DEFINE m == [l EXCEPT !.own = TRUE]
  <2>2. /\ legs' = (legs \ {l}) \cup {m}
        /\ UNCHANGED <<trades, cash, pending, commits, overlapped, backdated>>
    BY <2>1 DEF EditLeg
  <2>3. l \in LegRow /\ m \in LegRow /\ m.id = l.id /\ m.own
    BY <1>1 DEF WalletTypes, LegRow
  <2> HIDE DEF m
  <2>4. legs' \in SUBSET LegRow /\ \A k \in legs' : k = m \/ k \in legs
    BY <1>1, <2>2, <2>3 DEF WalletTypes
  <2>5. WalletTypes'
    <3>1. PICK n \in Nat : /\ pending.copy.leg <= n /\ \A k \in legs : k.id <= n
                           /\ \A i \in Places : trades[i].leg <= n
      BY <1>1 DEF WalletTypes
    <3>2. \A k \in legs' : k.id <= n
      BY <2>3, <2>4, <3>1
    <3> QED
      BY <1>1, <2>2, <2>4, <3>1, <3>2 DEF WalletTypes
  <2>6. LegsMatch => LegsMatch'
    <3> SUFFICES ASSUME LegsMatch PROVE LegsMatch'
      OBVIOUS
    <3>1. ASSUME NEW k \in legs'
          PROVE  \E i \in Places : /\ {j \in Places : trades[j].leg = k.id} = {i}
                                   /\ k.own \/ Leg(k.id, trades[i].terms) = k
      <4>1. PICK i \in Places : {j \in Places : trades[j].leg = l.id} = {i}
        BY DEF LegsMatch
      <4> QED
        BY <2>3, <2>4, <4>1 DEF LegsMatch
    <3>2. ASSUME NEW i \in Places, trades[i].leg # 0
          PROVE  trades[i].terms.type # "none" /\ \E k \in legs' : k.id = trades[i].leg
      <4>1. PICK k \in legs : k.id = trades[i].leg
        BY <3>2 DEF LegsMatch
      <4>2. k \in legs' \/ (k = l /\ m \in legs')
        BY <2>2
      <4> QED
        BY <2>3, <3>2, <4>1, <4>2 DEF LegsMatch
    <3> QED
      BY <2>2, <3>1, <3>2 DEF LegsMatch
  <2>7. StillTrue(pending) => StillTrue(pending)'
    BY <2>2 DEF StillTrue, LivePlaces
  <2> QED
    BY <2>2, <2>5, <2>6, <2>7 DEF WalletInv
<1>8. CASE UNCHANGED investVars
  <2>1. UNCHANGED <<trades, legs, pending, overlapped, backdated>>
    BY <1>8 DEF investVars
  <2>2. StillTrue(pending) => StillTrue(pending)'
    BY <2>1 DEF StillTrue, LivePlaces
  <2> QED
    BY <2>1, <2>2 DEF WalletInv, WalletTypes, LegsMatch
<1> QED
  BY <1>3, <1>4, <1>5, <1>6, <1>7, <1>8 DEF InvestNext

(* Every reachable state of a wallet satisfies the invariant.               *)
THEOREM WalletsAreConsistent == InvestSpec => []WalletInv
<1>1. InvestInit => WalletInv
  BY WalletStarts
<1>2. WalletInv /\ [InvestNext]_investVars => WalletInv'
  BY WalletStep
<1> QED
  BY <1>1, <1>2, PTL DEF InvestSpec

(* For any number of trades, assets, dates and quantities: as long as no    *)
(* request commits what it checked too early, every leg belongs to one      *)
(* trade and says what it settles, and ledgers fold (_validate_transaction, *)
(* update_investment_transaction, delete_investment_transaction).           *)
THEOREM InvestmentLedgersStaySound == InvestSpec => []InvestmentLedgerSound
<1>1. WalletInv => InvestmentLedgerSound
  BY DEF WalletInv, LegsMatch, InvestmentLedgerSound
<1> QED
  BY <1>1, WalletsAreConsistent, PTL
================================================================================
