------------------------------- MODULE Categories -------------------------------
(***************************************************************************)
(* Groups, categories and what refers to them: budgets and allocations of  *)
(* groups, and the transactions, recurring templates, loans and            *)
(* categorization rules of categories (services/categories.py,             *)
(* category_groups.py, budgets.py, budget_plan.py,                         *)
(* categorization_rules.py).                                               *)
(*                                                                         *)
(* A request reads the rows it needs and checks them, and writes later, in *)
(* one transaction; no row is locked in between.  Foreign keys are checked *)
(* when it writes.                                                         *)
(***************************************************************************)
EXTENDS Naturals, FiniteSets

CONSTANTS
  GroupIds, CategoryIds, UseIds,   \* bounds: rows of each kind
  Requests,        \* requests that may be in progress at one time
  Absent           \* a row that does not exist, a request that is idle

Kinds == {"income", "expense"}
Colors == {"red", "blue"}

VARIABLES
  groups,          \* id -> CategoryGroup or Absent
  categories,      \* id -> Category or Absent
  budgets,         \* groups with a budget for some month
  allocations,     \* groups with a percentage of the income
  filed,           \* id -> transaction, recurring template or loan, or Absent
  patterns,        \* categories that an active categorization rule assigns
  req              \* request -> what it has read and is about to write

categoryVars == <<groups, categories, budgets, allocations, filed, patterns, req>>
tables == <<groups, categories, budgets, allocations, filed, patterns>>

CategoryGroup == [kind : Kinds, color : Colors]
Category == [kind : Kinds, group : GroupIds, color : Colors]
Use == [what : {"transaction", "recurring", "loan"}, kind : Kinds, category : CategoryIds]

ASSUME CategoryAssumption ==
  Absent \notin CategoryIds \cup CategoryGroup \cup Category \cup Use

CategoriesInit ==
  /\ groups = [g \in GroupIds |-> Absent]
  /\ categories = [c \in CategoryIds |-> Absent]
  /\ budgets = {}
  /\ allocations = {}
  /\ filed = [u \in UseIds |-> Absent]
  /\ patterns = {}
  /\ req = [r \in Requests |-> Absent]

Present(f) == {x \in DOMAIN f : f[x] # Absent}

(* What a request keeps from its reads until it writes. *)
Reads(r, op) == req[r] = Absent /\ req' = [req EXCEPT ![r] = op] /\ UNCHANGED tables

(* Its writes reach the database, or one is refused and none does. *)
Writes(r, name) == req[r] # Absent /\ req[r].op = name /\ req' = [req EXCEPT ![r] = Absent]
Refused == UNCHANGED tables

HasCategories(g) == \E c \in Present(categories) : categories[c].group = g

(* Mutant: only categories count. *)
GroupHoldsCategories(g) == HasCategories(g)

GroupInUse(g) == HasCategories(g) \/ g \in budgets \/ g \in allocations

CategoryInUse(c) ==
  \E u \in Present(filed) :
    filed[u].category = c /\ filed[u].what \in {"transaction", "recurring"}

Referenced(c) == \E u \in Present(filed) : filed[u].category = c

(***************************************************************************)
(* Groups                                                                  *)
(***************************************************************************)
CreateGroup(r) ==
  /\ req[r] = Absent
  /\ \E g \in GroupIds \ Present(groups), row \in CategoryGroup :
       groups' = [groups EXCEPT ![g] = row]
  /\ UNCHANGED <<categories, budgets, allocations, filed, patterns, req>>

(* A PATCH names the fields it carries. *)
ReadForUpdateGroup(r) ==
  \E g \in Present(groups), fields \in SUBSET {"kind", "color"}, new \in CategoryGroup :
    /\ ("kind" \in fields /\ new.kind # groups[g].kind) => ~GroupInUse(g)
    /\ Reads(r, [op |-> "update group", group |-> g, fields |-> fields, new |-> new,
                 loaded |-> groups[g]])

UpdateGroup(r) ==
  LET q == req[r]
      g == q.group
      Differs(f) == f \in q.fields /\ q.new[f] # q.loaded[f]
  IN
  /\ Writes(r, "update group")
  /\ IF groups[g] = Absent THEN Refused ELSE
     /\ groups' = [groups EXCEPT ![g] =
          [kind |-> IF Differs("kind") THEN q.new.kind ELSE @.kind,
           color |-> IF Differs("color") THEN q.new.color ELSE @.color]]
     /\ categories' = [c \in CategoryIds |->
          IF "color" \in q.fields /\ c \in Present(categories) /\ categories[c].group = g
          THEN [categories[c] EXCEPT !.color = q.new.color] ELSE categories[c]]
     /\ UNCHANGED <<budgets, allocations, filed, patterns>>

ReadForDeleteGroup(r) ==
  \E g \in Present(groups) :
    ~HasCategories(g) /\ Reads(r, [op |-> "delete group", group |-> g])

DeleteGroup(r) ==
  LET g == req[r].group IN
  /\ Writes(r, "delete group")
  /\ IF groups[g] = Absent \/ HasCategories(g) THEN Refused ELSE
     /\ groups' = [groups EXCEPT ![g] = Absent]
     /\ budgets' = budgets \ {g}
     /\ allocations' = allocations \ {g}
     /\ UNCHANGED <<categories, filed, patterns>>

(***************************************************************************)
(* Budgets and allocations                                                 *)
(***************************************************************************)
ReadForUpsert(r) ==
  \E g \in Present(groups), op \in {"budget", "allocation"} :
    /\ op = "allocation" => groups[g].kind = "expense"
    /\ Reads(r, [op |-> op, group |-> g])

UpsertBudget(r) ==
  /\ Writes(r, "budget")
  /\ IF groups[req[r].group] = Absent THEN Refused ELSE
     /\ budgets' = budgets \cup {req[r].group}
     /\ UNCHANGED <<groups, categories, allocations, filed, patterns>>

UpsertAllocation(r) ==
  /\ Writes(r, "allocation")
  /\ IF groups[req[r].group] = Absent THEN Refused ELSE
     /\ allocations' = allocations \cup {req[r].group}
     /\ UNCHANGED <<groups, categories, budgets, filed, patterns>>

DeletePlan(r) ==
  /\ req[r] = Absent
  /\ \E g \in budgets \cup allocations :
       \/ g \in budgets /\ budgets' = budgets \ {g} /\ UNCHANGED allocations
       \/ g \in allocations /\ allocations' = allocations \ {g} /\ UNCHANGED budgets
  /\ UNCHANGED <<groups, categories, filed, patterns, req>>

(***************************************************************************)
(* Categories                                                              *)
(***************************************************************************)
ReadForCreateCategory(r) ==
  \E g \in Present(groups), kind \in Kinds :
    /\ groups[g].kind = kind
    /\ Present(categories) # CategoryIds
    /\ Reads(r, [op |-> "create category",
                 row |-> [kind |-> kind, group |-> g, color |-> groups[g].color]])

CreateCategory(r) ==
  /\ Writes(r, "create category")
  /\ IF groups[req[r].row.group] = Absent THEN Refused ELSE
     /\ \E c \in CategoryIds \ Present(categories) :
          categories' = [categories EXCEPT ![c] = req[r].row]
     /\ UNCHANGED <<groups, budgets, allocations, filed, patterns>>

ColorOnMove(old, g) == groups[g].color

(* The kind and the group the row will have, and the group's color if it changes. *)
ReadForUpdateCategory(r) ==
  \E c \in Present(categories), kind \in Kinds, g \in Present(groups) :
    LET old == categories[c] IN
    /\ <<kind, g>> # <<old.kind, old.group>>
    /\ groups[g].kind = kind
    /\ kind # old.kind => ~CategoryInUse(c)
    /\ Reads(r, [op |-> "update category", category |-> c, loaded |-> old,
                 row |-> [kind |-> kind, group |-> g, color |-> ColorOnMove(old, g)]])

UpdateCategory(r) ==
  LET q == req[r]
      c == q.category
      Field(f) == IF q.row[f] # q.loaded[f] THEN q.row[f] ELSE categories[c][f]
  IN
  /\ Writes(r, "update category")
  /\ IF categories[c] = Absent \/ groups[q.row.group] = Absent THEN Refused ELSE
     /\ categories' = [categories EXCEPT ![c] =
          [kind |-> Field("kind"), group |-> Field("group"), color |-> Field("color")]]
     /\ UNCHANGED <<groups, budgets, allocations, filed, patterns>>

ReadForDeleteCategory(r) ==
  \E c \in Present(categories) :
    ~CategoryInUse(c) /\ Reads(r, [op |-> "delete category", category |-> c])

(* Foreign keys: loans refuse it as well, categorization rules go with it. *)
DeleteCategory(r) ==
  LET c == req[r].category IN
  /\ Writes(r, "delete category")
  /\ IF categories[c] = Absent \/ Referenced(c) THEN Refused ELSE
     /\ categories' = [categories EXCEPT ![c] = Absent]
     /\ patterns' = patterns \ {c}
     /\ UNCHANGED <<groups, budgets, allocations, filed>>

(***************************************************************************)
(* What refers to categories                                               *)
(***************************************************************************)
ReadForUse(r) ==
  \E use \in Use :
    /\ use.category \in Present(categories)
    /\ categories[use.category].kind = use.kind
    /\ use.what = "loan" => use.kind = "expense"
    /\ Present(filed) # UseIds
    /\ Reads(r, [op |-> "use", row |-> use])

AddUse(r) ==
  /\ Writes(r, "use")
  /\ IF categories[req[r].row.category] = Absent THEN Refused ELSE
     /\ \E u \in UseIds \ Present(filed) : filed' = [filed EXCEPT ![u] = req[r].row]
     /\ UNCHANGED <<groups, categories, budgets, allocations, patterns>>

DeleteUse(r) ==
  /\ req[r] = Absent
  /\ \E u \in Present(filed) : filed' = [filed EXCEPT ![u] = Absent]
  /\ UNCHANGED <<groups, categories, budgets, allocations, patterns, req>>

(* A rule that is created, edited, imported, switched off or deleted. *)
ChangePatterns(r) ==
  /\ req[r] = Absent
  /\ patterns' \in SUBSET Present(categories) \ {patterns}
  /\ UNCHANGED <<groups, categories, budgets, allocations, filed, req>>

(* Which rows a rule matches is text; its category has the kind of the row. *)
MayMatch(c, use) == use.what = "transaction" /\ categories[c].kind = use.kind

ReadForReapply(r) ==
  \E assigned \in [Present(filed) -> patterns \cup {Absent}] :
    /\ \A u \in Present(filed) :
         assigned[u] # Absent => /\ MayMatch(assigned[u], filed[u])
                               /\ assigned[u] # filed[u].category
    /\ \E u \in Present(filed) : assigned[u] # Absent
    /\ Reads(r, [op |-> "reapply", assigned |-> assigned])

ReapplyRules(r) ==
  LET a == req[r].assigned
      Changed == {u \in DOMAIN a : a[u] # Absent}
  IN
  /\ Writes(r, "reapply")
  /\ IF \E u \in Changed : filed[u] = Absent \/ categories[a[u]] = Absent THEN Refused ELSE
     /\ filed' = [u \in UseIds |->
                   IF u \in Changed THEN [filed[u] EXCEPT !.category = a[u]] ELSE filed[u]]
     /\ UNCHANGED <<groups, categories, budgets, allocations, patterns>>

CategoryStep(r) ==
  \/ CreateGroup(r)
  \/ ReadForUpdateGroup(r)
  \/ UpdateGroup(r)
  \/ ReadForDeleteGroup(r)
  \/ DeleteGroup(r)
  \/ ReadForUpsert(r)
  \/ UpsertBudget(r)
  \/ UpsertAllocation(r)
  \/ DeletePlan(r)
  \/ ReadForCreateCategory(r)
  \/ CreateCategory(r)
  \/ ReadForUpdateCategory(r)
  \/ UpdateCategory(r)
  \/ ReadForDeleteCategory(r)
  \/ DeleteCategory(r)
  \/ ReadForUse(r)
  \/ AddUse(r)
  \/ DeleteUse(r)
  \/ ChangePatterns(r)
  \/ ReadForReapply(r)
  \/ ReapplyRules(r)

CategoriesNext == \E r \in Requests : CategoryStep(r)

CategoriesSpec == CategoriesInit /\ [][CategoriesNext]_categoryVars

(***************************************************************************)
(* Properties                                                              *)
(***************************************************************************)

(* A category has the kind and the color of its group, after any sequence  *)
(* of creations, moves, recolorings and changes of kind of either, as long *)
(* as one request ends before the next begins.                             *)
CategoriesFitGroups ==
  \A c \in Present(categories) :
    LET k == categories[c] IN
    /\ groups[k.group] # Absent
    /\ k.kind = groups[k.group].kind
    /\ k.color = groups[k.group].color

(* No income is filed under an expense category or the other way round: a  *)
(* transaction or a recurring template keeps a category of its kind, also  *)
(* when rules are reapplied (_category_in_use, first_match).               *)
UsesFitCategories ==
  \A u \in Present(filed) :
    filed[u].what # "loan" => categories[filed[u].category].kind = filed[u].kind

(* Only expense groups have a share of the income (upsert_allocation,      *)
(* _group_in_use).                                                         *)
AllocationsAreExpenses == \A g \in allocations : groups[g].kind = "expense"

(* The books stay consistent with the categories: the three together.      *)
FilingIsConsistent ==
  CategoriesFitGroups /\ UsesFitCategories /\ AllocationsAreExpenses
================================================================================
