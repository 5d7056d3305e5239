------------------------------ MODULE MountIter ------------------------------
(***************************************************************************)
(* Iterate_MountFS/mount_iter.c: at load, a walk over the tree of mounts   *)
(* that keeps a list with one record for each type of file system.         *)
(*                                                                         *)
(* The mounts are 1..MountCount, numbered in the order of the lists of     *)
(* children; 1 is the root, its own parent.  A round of the walk is one    *)
(* step.  The read lock it holds does not keep others from changing the    *)
(* tree between two rounds: a mount may be detached (it is then its own    *)
(* parent and nobody's child), a new one attached, and one moved, to a     *)
(* place that the numbers allow.                                           *)
(***************************************************************************)
EXTENDS Naturals, Sequences, FiniteSets

CONSTANTS MountCount, FsTypes

ASSUME MountAssumption == MountCount \in Nat \ {0}

VARIABLES
  walk,      \* where filesystem_list_init is
  parent,    \* mnt_parent; a mount that is not in the tree is its own parent
  fstype,    \* the type of each mount's file system
  cur,       \* mnt, or mount_list
  mntRefs,   \* the references the walk holds
  visited,   \* the mounts walked over, in order; no code reads it
  mntList,   \* file_record.list, by the number of the round that made each record
  mntLive,   \* the records allocated and not freed
  noMem,     \* the rounds whose record could not be allocated; not read
  changed,   \* whether the tree changed under the walk; not read
  moved      \* whether a mount was moved; not read

mountVars == <<walk, parent, fstype, cur, mntRefs, visited, mntList, mntLive, noMem, changed, moved>>
records == <<mntList, mntLive, noMem>>

Mounts == 1..MountCount
Children(m) == {c \in Mounts \ {m} : parent[c] = m}
First(S) == CHOOSE c \in S : \A d \in S : c <= d
InTree(m) == m = 1 \/ parent[m] # m

\* The trees: below the root, or below a mount that is below it.
Trees ==
  {f \in [Mounts -> Mounts] : \A m \in Mounts :
     f[m] <= m /\ (f[m] # m => f[m] = 1 \/ f[f[m]] # f[m])}

MountInit ==
  /\ walk = "start"
  /\ parent \in Trees
  /\ fstype \in [Mounts -> FsTypes]
  /\ cur \in Mounts /\ InTree(cur)        \* the root directory of the process
  /\ mntRefs = [m \in Mounts |-> 0]
  /\ visited = <<>> /\ mntList = <<>> /\ mntLive = {} /\ noMem = {}
  /\ changed = FALSE /\ moved = FALSE

Gets(m) == mntRefs' = [mntRefs EXCEPT ![m] = @ + 1]
PutsAndGets(m, n) ==
  mntRefs' = [r \in Mounts |-> mntRefs[r] + (IF r = n THEN 1 ELSE 0) - (IF r = m THEN 1 ELSE 0)]
Puts(m) == mntRefs' = [mntRefs EXCEPT ![m] = @ - 1]

\* Up from the root directory of the process to the root of the tree.
get_root_mount_point ==
  /\ walk \in {"start", "climb"}
  /\ IF parent[cur] # cur
     THEN cur' = parent[cur] /\ walk' = "climb" /\ UNCHANGED mntRefs
     ELSE walk' = "walk" /\ Gets(cur) /\ UNCHANGED cur
  /\ UNCHANGED <<parent, fstype, visited, records, changed, moved>>

\* The type of a record's mount.
type(k) == fstype[visited[k]]
vfs_mount_point_compare(m) == \E i \in 1..Len(mntList) : type(mntList[i]) = fstype[m]

\* A record of a type in the list already is allocated, not linked and not freed.
add_to_filesystem_record(m, k) ==
  \/ /\ mntLive' = mntLive \cup {k}
     /\ mntList' = IF vfs_mount_point_compare(m) THEN mntList ELSE Append(mntList, k)
     /\ UNCHANGED noMem
  \/ noMem' = noMem \cup {k} /\ UNCHANGED <<mntLive, mntList>>

\* The siblings after m in its parent's list, and the first ancestor of m,
\* m included, that has one.
Later(m) == {c \in Children(parent[m]) : c > m}
climb[m \in Mounts] == IF parent[m] = m \/ Later(m) # {} THEN m ELSE climb[parent[m]]

\* Fault: a mount without a later sibling ends the walk.
ClimbsNever(m) ==
  IF Children(m) # {} THEN {First(Children(m))}
  ELSE IF parent[m] = m \/ Later(m) = {} THEN {} ELSE {First(Later(m))}

\* The mount after m in the walk, if there is one.
NextMount(m) ==
  IF Children(m) # {} THEN {First(Children(m))}
  ELSE IF parent[climb[m]] = climb[m] THEN {}
  ELSE {First(Later(climb[m]))}

iterate_mount_point ==
  /\ walk = "walk"
  /\ add_to_filesystem_record(cur, Len(visited) + 1)
  /\ visited' = Append(visited, cur)
  /\ IF NextMount(cur) # {}
     THEN \E n \in NextMount(cur) : cur' = n /\ PutsAndGets(cur, n) /\ UNCHANGED walk
     ELSE walk' = "free" /\ Puts(cur) /\ UNCHANGED cur
  /\ UNCHANGED <<parent, fstype, changed, moved>>

\* The printing and freeing loops at the end of filesystem_list_init.
FreesRecord ==
  /\ walk = "free"
  /\ IF mntList # <<>>
     THEN /\ mntLive' = mntLive \ {Head(mntList)} /\ mntList' = Tail(mntList)
          /\ UNCHANGED walk
     ELSE walk' = "done" /\ UNCHANGED <<mntLive, mntList>>
  /\ UNCHANGED <<parent, fstype, cur, mntRefs, visited, noMem, changed, moved>>

\* A record keeps its mount by address alone, and the climb its mounts: one
\* that has left the tree may be gone.  What follows from reading it is not known.
Gone(m) == ~InTree(m) /\ mntRefs[m] = 0
ReadsGone ==
  /\ \/ walk = "climb" /\ Gone(cur)
     \/ walk = "walk" /\ \E i \in 1..Len(mntList) :
          /\ Gone(visited[mntList[i]])
          /\ \A j \in 1..(i - 1) : type(mntList[j]) # fstype[cur]
     \/ walk = "free" /\ \E i \in 1..Len(mntList) : Gone(visited[mntList[i]])
  /\ walk' = "undefined"
  /\ UNCHANGED <<parent, fstype, cur, mntRefs, visited, records, changed, moved>>

\* What others do to the tree meanwhile.
Changes(m, p) ==
  /\ walk \in {"start", "climb", "walk", "free"}
  /\ parent' = [parent EXCEPT ![m] = p]
  /\ changed' = TRUE
  /\ UNCHANGED <<walk, fstype, cur, mntRefs, visited, records>>

\* umount -l of a mount that has none below it.
Detach(m) == m # 1 /\ parent[m] # m /\ Children(m) = {} /\ Changes(m, m) /\ UNCHANGED moved

\* A mount goes to the end of the list of its parent's children.
Fits(m, p) == p < m /\ InTree(p) /\ \A c \in Children(p) : c < m

\* mount: a new one, which the walk cannot have met.
Attach(m, p) ==
  /\ ~InTree(m) /\ m # cur /\ \A i \in 1..Len(visited) : visited[i] # m
  /\ Fits(m, p) /\ Changes(m, p) /\ UNCHANGED moved

\* mount --move, once, with what is below the mount.
Moves(m, p) == parent[m] # m /\ Fits(m, p) /\ Changes(m, p) /\ ~moved /\ moved' = TRUE

MountNext ==
  \/ get_root_mount_point \/ iterate_mount_point \/ FreesRecord \/ ReadsGone
  \/ \E m \in Mounts : Detach(m)
  \/ \E m, p \in Mounts : Attach(m, p) \/ Moves(m, p)

\* The walk gives back every reference, and meets no mount twice unless one is
\* moved meanwhile; if the tree does not change it meets every mount, each after
\* its parent, and reads no mount that is gone.  What it prints has no type
\* twice and every type that got a record, and what it leaves allocated are
\* records of a type that was in the list already (iterate_mount_point,
\* add_to_filesystem_record).
Walked ==
  /\ ~moved => \A i, j \in 1..Len(visited) : visited[i] = visited[j] => i = j
  /\ walk # "undefined" =>
       \A m \in Mounts : mntRefs[m] = (IF walk = "walk" /\ m = cur THEN 1 ELSE 0)
  /\ \A i, j \in 1..Len(mntList) : type(mntList[i]) = type(mntList[j]) => i = j
  /\ walk = "undefined" => changed
  /\ walk \in {"free", "done"} /\ ~changed =>
       \A m \in Mounts : InTree(m) => \E i \in 1..Len(visited) :
         visited[i] = m /\ (m # 1 => \E j \in 1..(i - 1) : visited[j] = parent[m])
  /\ walk = "done" => \A k \in mntLive : \E j \in 1..Len(visited) :
                         j \notin mntLive \cup noMem /\ type(j) = type(k)
=============================================================================
