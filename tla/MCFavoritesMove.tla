-------------------------- MODULE MCFavoritesMove --------------------------
(* Small libraries for FavoritesMove: two names, the second a tuned patch's. *)
EXTENDS FavoritesMove, TLC

At(place, n) == <<place, n>>

\* Every stock patch is there.  The first favourite is a copy of a stock patch,
\* under its name or the other, of a patch of the player's own, or a sound of its
\* own; the second is a copy or was tuned; or a tuned patch lies elsewhere.
Libraries ==
  LET none == [p \in Patches |-> IF p[1] = "stock" THEN p ELSE Nil]
      first == {<<>>, At("fav", 1) :> At("fav", 1), At("fav", 1) :> At("stock", 1),
                At("fav", 1) :> At("stock", 2),
                At("fav", 1) :> At("own", 1) @@ At("own", 1) :> At("own", 1)}
      second == {<<>>, At("fav", 2) :> At("fav", 2), At("fav", 2) :> At("stock", 2),
                 At("own", 2) :> At("own", 2),
                 At("fav", 2) :> At("own", 2) @@ At("own", 2) :> At("own", 2),
                 At("fav", 2) :> At("stock", 2) @@ At("own", 2) :> At("own", 2)}
  IN {a @@ b @@ none : a \in first, b \in second}

Copies(f) == {p \in Patches : p[1] = "fav" /\ f[p] # Nil}
Both(p)   == "chosen" :> p @@ "captured" :> p

\* Settings under the copies' keys, the stock patches', the bare names.
Stores(f) ==
  {[k \in Keys |-> CASE k \in Copies(f) /\ "copy" \in s   -> Both(k)
                     [] k[1] = "stock" /\ "stock" \in s -> "chosen" :> k
                     [] k[1] = "stem" /\ "stem" \in s   -> Both(k)
                     [] OTHER                           -> Nil] :
     s \in {{"copy", "stock", "stem"}, {"copy", "stock"}, {"stock", "stem"}, {"stem"}}}

\* The copies hearted from the stock patch of their name, filed under their own
\* key, or not in the index; a stock patch without a copy is a favourite too.
Indexes(f) ==
  LET plain == {At("stock", p[2]) : p \in {p \in Patches : p[1] = "fav" /\ f[p] = Nil}}
      names == {p[2] : p \in Copies(f)}
  IN {[version |-> 1, copy |-> [k \in plain |-> Nil] @@ c] :
        c \in {[k \in {At("stock", n) : n \in names} |-> k[2]], [k \in Copies(f) |-> Nil], <<>>}}

\* Every library goes through one run, cut off once; the busy ones through all
\* that the bounds allow.
Busy(f) == f[At("fav", 1)] = At("stock", 1) /\ f[At("fav", 2)] = At("fav", 2)

MCInit ==
  /\ \E f \in Libraries : \E s \in Stores(f), i \in Indexes(f) :
       /\ files = f
       /\ saved = [store |-> s, index |-> i,
                   last |-> IF At("fav", 2) \in Copies(f) THEN At("fav", 2)
                            ELSE IF At("fav", 1) \in Copies(f) THEN At("fav", 1) ELSE At("stock", 1)]
       /\ IF Busy(f) THEN runs = 0 /\ crashes = 0
          ELSE runs = MaxRuns - 1 /\ crashes = MaxCrashes - 1
  /\ Committed
MCSpec == MCInit /\ [][MoveNext]_moveVars
=============================================================================
