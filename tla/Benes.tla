------------------------------- MODULE Benes -------------------------------
(***************************************************************************)
(* How a permutation is routed through the network of BenesNet             *)
(* (genBenesRoute): which of its switches are set.                         *)
(***************************************************************************)
EXTENDS BenesNet, SequencesExt

\* x ^ 1, and i | j with the last bit xored by s, for an even i.
Flip(x) == IF x % 2 = 0 THEN x + 1 ELSE x - 1
Port(i, j, s) == i + ((j + s) % 2)

\* The even places that have a right neighbour.
Pairs(size) == {i \in 0..size - 2 : i % 2 = 0}

(***************************************************************************)
(* Routing.  An item goes to the bottom half (route 0) or the top (1);     *)
(* the two items that share a switch take different routes.  Dfs is        *)
(* Benes::DFS with its stack, top first; -1 is an item without a route.    *)
(***************************************************************************)
RECURSIVE Dfs(_, _, _, _)
Dfs(stack, path, permInner, invPermInner) ==
  IF stack = <<>> THEN path
  ELSE LET idx == stack[1][1]
           route == stack[1][2]
           set == [path EXCEPT ![idx] = route]
           Push(item) == IF set[item] < 0 THEN <<<<item, 1 - route>>>> ELSE <<>>
       IN Dfs(Push(permInner[Flip(invPermInner[idx])]) \o Push(Flip(idx)) \o Tail(stack),
              set, permInner, invPermInner)

\* An odd last item has no switch: it takes the top route in and out, and
\* what shares a switch with it on the way out is followed first.
OddPath(size, permInner, invPermInner) ==
  LET last == size - 1
      none == [i \in 0..last |-> -1]
      set == [none EXCEPT ![last] = 1, ![permInner[last]] = 1] IN
  IF size % 2 = 0 THEN none
  ELSE IF permInner[last] = last THEN set
  ELSE Dfs(<<<<permInner[Flip(invPermInner[last])], 0>>>>, set, permInner, invPermInner)

Paths(size, permInner) ==
  LET invPermInner == [x \in 0..size - 1 |-> CHOOSE i \in 0..size - 1 : permInner[i] = x]
      From(path, i) == IF path[i] < 0 THEN Dfs(<<<<i, 0>>>>, path, permInner, invPermInner) ELSE path
  IN FoldLeft(From, OddPath(size, permInner, invPermInner), [i \in 1..size |-> i - 1])

\* The three switches of a subnetwork of size three.
\* Mutant: an item that goes to the bottom place is swapped down once too few.
ThreeShort(src, dest) ==
  CASE src[1] = dest[1] -> <<0, IF src[2] # dest[2] THEN 1 ELSE 0, 0>>
    [] src[1] = dest[2] -> <<0, IF src[2] # dest[1] THEN 1 ELSE 0, 1>>
    [] src[1] = dest[3] -> <<1, 0, IF src[2] # dest[1] THEN 1 ELSE 0>>
Three(src, dest) ==
  CASE src[1] = dest[1] -> <<0, IF src[2] # dest[2] THEN 1 ELSE 0, 0>>
    [] src[1] = dest[2] -> <<0, IF src[2] # dest[1] THEN 1 ELSE 0, 1>>
    [] src[1] = dest[3] -> <<1, 1, IF src[2] # dest[1] THEN 1 ELSE 0>>

\* The switches set in a subnetwork that takes the items src to the order dest.
RECURSIVE RouteInner(_, _, _, _, _)
RouteInner(n, depth, permIdx, src, dest) ==
  LET size == Len(src)
      coDepth == LogN(n) - depth
      half == size \div 2
      Set(column, row, b) == At(n, column, row) :> b
  IN CASE size = 2 -> Set(IF coDepth = 1 THEN depth ELSE depth + 1, permIdx, IF src[1] # dest[1] THEN 1 ELSE 0)
       [] size = 3 ->
            Set(depth, permIdx, Three(src, dest)[1]) @@ Set(depth + 1, permIdx, Three(src, dest)[2])
            @@ Set(depth + 2, permIdx, Three(src, dest)[3])
       [] OTHER ->
            LET permInner == [i \in 0..size - 1 |-> CHOOSE j \in 0..size - 1 : src[j + 1] = dest[i + 1]]
                path == Paths(size, permInner)
                Down(i, s) == CHOOSE j \in 0..1 : ToBottom(Port(i, j, s), coDepth, size)
                In(i, j) == src[i + j + 1]
                Out(i, j) == src[permInner[i + j] + 1]
                odd == IF size % 2 = 1 THEN <<size>> ELSE <<>>
                bottom1 == [x \in 1..half |-> In(2*x - 2, Down(2*x - 2, path[2*x - 2]))]
                top1 == [x \in 1..half |-> In(2*x - 2, 1 - Down(2*x - 2, path[2*x - 2]))]
                bottom2 == [x \in 1..half |-> Out(2*x - 2, Down(2*x - 2, path[permInner[2*x - 2]]))]
                top2 == [x \in 1..half |-> Out(2*x - 2, 1 - Down(2*x - 2, path[permInner[2*x - 2]]))]
                Rest(v) == [x \in DOMAIN odd |-> v[odd[x]]]
                lastColumn == depth + 2 * coDepth - 2
            IN RouteInner(n, depth + 1, permIdx, bottom1, bottom2)
               @@ RouteInner(n, depth + 1, TopRow(permIdx, size), top1 \o Rest(src), top2 \o Rest(dest))
               @@ [a \in {At(n, depth, permIdx + (i \div 2)) : i \in Pairs(size)} |->
                     path[2 * (a - At(n, depth, permIdx))]]
               @@ [a \in {At(n, lastColumn, permIdx + (i \div 2)) : i \in Pairs(size)} |->
                     path[permInner[2 * (a - At(n, lastColumn, permIdx))]]]

\* genBenesRoute and getSwitchesAsBitVec; a switch no subnetwork owns stays 0.
Route(n, perm) ==
  RouteInner(n, 0, 0, [i \in 1..n |-> i - 1], [i \in 1..n |-> perm[i - 1]])
  @@ [a \in 0..SwitchCount(n) - 1 |-> 0]
=============================================================================
