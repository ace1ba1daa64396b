------------------------ MODULE TrapRegistry_proofs ------------------------
(***************************************************************************)
(* The registry of patch sites (TrapRegistry), for every code, window and  *)
(* jump length with the proportions of the code, every set of boundaries,  *)
(* jump sites, handles, rapid probes and installations.                    *)
(***************************************************************************)
EXTENDS TrapRegistry, TLAPS

-----------------------------------------------------------------------------
(* The inductive invariant.                                                *)

NoneWritten == \A c \in Quiescents : cpc[c] \in {"none", "reserved"}

\* The byte belongs to a registered site.
Owned(a) == \E z \in Sites : a \in OwnBytes(z)

\* The byte is, or was, under an installation.
Overwritten(a) ==
  \E c \in Quiescents : /\ cpc[c] \in {"installed", "restored", "retired"}
                        /\ a \in ClientBytes(c)

\* A registered site displaces at least its jump; a jump site is one of the
\* planned heads, a rapid site is an installed probe's, and nothing else is
\* locked.
SiteInv(x) ==
  /\ kind[x] \in {"word", "split"} => x \in JumpSites /\ kind[x] = Strategy(x)
  /\ kind[x] = "rapid" =>
       \E c \in Rapids : cpc[c] = "installed" /\ SiteOf[c] = x
  /\ kind[x] # "none" => dispEnd[x] >= x + JumpLen
  /\ phase[x] = "WRITING" => \E h \in Handles : Writing(h) /\ site[h] = x

\* Displaced intervals are disjoint, and a reservation that meets another is
\* of two word sites.
SitesApart ==
  \A x, y \in Sites : x # y =>
    /\ ~Overlap(<<x, dispEnd[x]>>, <<y, dispEnd[y]>>)
    /\ Overlap(Reservation(x, kind[x]), Reservation(y, kind[y]))
         => kind[x] = "word" /\ kind[y] = "word"

\* A client holds its range from its reservation to its retirement, or to the
\* registration of its site; while it does, no site reaches into it.
ClientInv(c) ==
  /\ c \in pending <=> \/ cpc[c] = "reserved"
                       \/ c \in Quiescents /\ cpc[c] \in {"installed", "restored"}
  /\ c \in Rapids => cpc[c] \in {"none", "reserved", "installed"}
  /\ c \in Rapids /\ cpc[c] = "installed" =>
       /\ kind[SiteOf[c]] = "rapid"
       /\ dispEnd[SiteOf[c]] = SiteOf[c] + JumpLen
  /\ c \in pending => \A y \in Sites : ~Overlap(ClientRange(c), Span(y))

\* No two clients hold overlapping ranges.
ClientsApart ==
  \A c, d \in Clients : Claimed(c) /\ Claimed(d) /\ c # d
                        => ~Overlap(ClientRange(c), ClientRange(d))

\* A handle's plan is of a jump site, a bound one is registered and covers
\* what it displaces; whoever publishes has its site locked, alone.
HandleInv(h) ==
  /\ hpc[h] # "unplanned" => site[h] \in JumpSites /\ displaced[h] >= JumpLen
  /\ Bound(h) => /\ kind[site[h]] = Strategy(site[h])
                 /\ site[h] + displaced[h] <= dispEnd[site[h]]
  /\ Writing(h) => phase[site[h]] = "WRITING"

WritersApart ==
  \A g, h \in Handles : g # h /\ Writing(g) /\ Writing(h) => site[g] # site[h]

\* Two jump sites whose windows overlap are never locked together.
LocksApart ==
  \A x, y \in Sites :
    /\ x # y /\ kind[x] # "rapid" /\ kind[y] # "rapid"
    /\ phase[x] = "WRITING" /\ phase[y] = "WRITING"
    => ~Overlap(<<x, x + WindowLen>>, <<y, y + WindowLen>>)

\* A publication leaves the tail of its window alone: expected and
\* replacement agree there, and once compared the window is what it expects.
ImageInv(h) ==
  /\ Writing(h) => \A i \in Index \ Own : exp[h][i] = rep[h][i]
  /\ hpc[h] = "store" => Window(mem, site[h]) = exp[h]
  /\ hpc[h] = "finish" /\ done[h] = "ok" =>
       \A i \in Own : mem[site[h] + i] = rep[h][i]

\* A plan's bytes are still there, unless the byte has or had another owner.
PlanInv(h) ==
  hpc[h] = "planned" =>
    \A i \in Index : \/ orig[h][i] = mem[site[h] + i]
                     \/ Owned(site[h] + i)
                     \/ Overwritten(site[h] + i)

\* What a word site holds as committed is live, but for a store that has not
\* been recorded yet.
LiveInv(x) ==
  /\ kind[x] = "word" /\ OwnBytes(x) \cap GivenBack = {}
  /\ \A h \in Handles : ~(site[h] = x /\ hpc[h] = "finish" /\ done[h] = "ok")
  => \A i \in Own : mem[x + i] = committed[x][i]

\* Until an installation has written, every byte that is not original belongs
\* to a registered site, and word sites have registered original bytes.
PristineInv ==
  NoneWritten =>
    /\ \A a \in Addr : mem[a] # "orig" => Owned(a)
    /\ \A x \in Sites : kind[x] = "word" =>
         \A i \in Own : original[x][i] = "orig"

\* Until then, too, a byte of a plan that is not original belongs to a site,
\* the tail of a bound handle is original, and a publication expects of its
\* tail what is there.
CleanInv(h) ==
  NoneWritten =>
    /\ hpc[h] = "planned" =>
         \A i \in Index : orig[h][i] # "orig" => Owned(site[h] + i)
    /\ Bound(h) => \A i \in Index \ Own : tail[h][i] = "orig"
    /\ hpc[h] = "compare" =>
         \A i \in Index \ Own : mem[site[h] + i] = exp[h][i]

\* Who holds what, and what the bytes are.
ControlInv ==
  /\ \A x \in Addr : SiteInv(x)
  /\ \A c \in Clients : ClientInv(c)
  /\ \A h \in Handles : HandleInv(h)
  /\ SitesApart /\ ClientsApart /\ WritersApart /\ LocksApart

BytesInv ==
  /\ \A x \in Addr : LiveInv(x)
  /\ \A h \in Handles : ImageInv(h) /\ PlanInv(h) /\ CleanInv(h)
  /\ PristineInv

IInv == TypeOK /\ ControlInv /\ BytesInv

-----------------------------------------------------------------------------
(* Geometry.                                                               *)

\* A jump site's reservation is an interval that holds its whole window.
LEMMA ReservationCovers ==
  ASSUME NEW x \in JumpSites
  PROVE  /\ Strategy(x) \in {"word", "split"}
         /\ Reservation(x, Strategy(x))[1] \in Int
         /\ Reservation(x, Strategy(x))[2] \in Int
         /\ Reservation(x, Strategy(x))[1] <= x
         /\ x + WindowLen <= Reservation(x, Strategy(x))[2]
  <1> USE ScaleAssumption, SitesAssumption
  <1>1. x \in Int OBVIOUS
  <1>2. CASE Strategy(x) = "word"
    BY <1>1, <1>2 DEF Reservation
  <1>3. CASE Strategy(x) = "split"
    <2> DEFINE b == CHOOSE b \in Cut(x) : TRUE
    <2>1. Cut(x) # {}
      BY <1>3 DEF Strategy
    <2>2. b \in Cut(x)
      BY <2>1
    <2>3. b \in Nat /\ x < b /\ b < x + WindowLen
      BY <2>2 DEF Cut
    <2>4. Reservation(x, "split") = <<b - WindowLen, b + WindowLen>>
      BY DEF Reservation
    <2> HIDE DEF b
    <2> QED BY <1>1, <1>3, <2>3, <2>4
  <1>4. Strategy(x) \in {"word", "split"}
    BY DEF Strategy
  <1> QED BY <1>2, <1>3, <1>4

\* What the invariant says of the place of one registered site: its own bytes
\* lie in its reservation and in what it displaces, its span holds both.
LEMMA SitePlace ==
  ASSUME TypeOK, NEW x \in Sites, SiteInv(x)
  PROVE  /\ x \in Addr /\ x \in Int /\ dispEnd[x] \in Int
         /\ dispEnd[x] >= x + JumpLen
         /\ Reservation(x, kind[x])[1] \in Int
         /\ Reservation(x, kind[x])[2] \in Int
         /\ Reservation(x, kind[x])[1] <= x
         /\ x + JumpLen <= Reservation(x, kind[x])[2]
         /\ Span(x)[1] \in Int /\ Span(x)[2] \in Int
         /\ Span(x)[1] <= x
         /\ Span(x)[1] <= Reservation(x, kind[x])[1]
         /\ dispEnd[x] <= Span(x)[2]
         /\ Reservation(x, kind[x])[2] <= Span(x)[2]
         /\ x \in JumpSites /\ kind[x] \in {"word", "split"} =>
              x + WindowLen <= Reservation(x, kind[x])[2]
         /\ kind[x] \in {"word", "split", "rapid"}
  <1> USE ScaleAssumption, SitesAssumption
  <1>1. /\ x \in Addr /\ x \in Int /\ dispEnd[x] \in Int
        /\ dispEnd[x] >= x + JumpLen
        /\ kind[x] \in {"word", "split", "rapid"}
    BY DEF Sites, TypeOK, SiteInv, Addr
  <1> DEFINE r == Reservation(x, kind[x])
  <1>2. /\ r[1] \in Int /\ r[2] \in Int /\ r[1] <= x /\ x + JumpLen <= r[2]
        /\ x \in JumpSites /\ kind[x] \in {"word", "split"} =>
              x + WindowLen <= r[2]
    <2>1. CASE kind[x] = "rapid"
      BY <1>1, <2>1 DEF Reservation
    <2>2. CASE kind[x] \in {"word", "split"}
      BY <1>1, <2>2, ReservationCovers DEF SiteInv
    <2> QED BY <1>1, <2>1, <2>2
  <1>3. Span(x) = <<IF r[1] < x THEN r[1] ELSE x,
                    IF r[2] > dispEnd[x] THEN r[2] ELSE dispEnd[x]>>
    BY DEF Span
  <1> HIDE DEF r
  <1> QED BY <1>1, <1>2, <1>3 DEF r

\* Of two sites, neither's own bytes are the other's; if they lie in the
\* other's window, both are word sites, one behind the other.
LEMMA SitesDisjoint ==
  ASSUME IInv, NEW x \in Sites, NEW y \in Sites, x # y
  PROVE  /\ OwnBytes(x) \cap OwnBytes(y) = {}
         /\ x < y => x + JumpLen <= y
         /\ y < x => y + JumpLen <= x
         /\ kind[y] # "rapid" /\ (\E a \in OwnBytes(x) : a < y + WindowLen /\ y <= a)
              => kind[x] = "word" /\ kind[y] = "word" /\ y < x
  <1> USE ScaleAssumption
  <1>1. x \in Addr /\ y \in Addr
    BY DEF Sites
  <1>2. SiteInv(x) /\ SiteInv(y) /\ TypeOK
    BY <1>1 DEF IInv, ControlInv
  <1>3. /\ x \in Int /\ dispEnd[x] \in Int /\ dispEnd[x] >= x + JumpLen
        /\ Reservation(x, kind[x])[1] \in Int /\ Reservation(x, kind[x])[2] \in Int
        /\ Reservation(x, kind[x])[1] <= x
        /\ x + JumpLen <= Reservation(x, kind[x])[2]
    BY <1>2, SitePlace
  <1>4. /\ y \in Int /\ dispEnd[y] \in Int /\ dispEnd[y] >= y + JumpLen
        /\ Reservation(y, kind[y])[1] \in Int /\ Reservation(y, kind[y])[2] \in Int
        /\ Reservation(y, kind[y])[1] <= y
        /\ kind[y] # "rapid" => y + WindowLen <= Reservation(y, kind[y])[2]
    BY <1>2, SitePlace DEF SiteInv, Sites
  <1>5. ~Overlap(<<x, dispEnd[x]>>, <<y, dispEnd[y]>>)
    BY DEF IInv, ControlInv, SitesApart
  <1>6. /\ x < y => x + JumpLen <= y
        /\ y < x => y + JumpLen <= x
    BY <1>3, <1>4, <1>5 DEF Overlap
  <1>7. OwnBytes(x) \cap OwnBytes(y) = {}
    BY <1>3, <1>4, <1>6 DEF OwnBytes
  <1>8. ASSUME kind[y] # "rapid",
               NEW a \in OwnBytes(x), a < y + WindowLen, y <= a
        PROVE  kind[x] = "word" /\ kind[y] = "word" /\ y < x
    <2>1. a \in Int /\ x <= a /\ a < x + JumpLen
      BY <1>3 DEF OwnBytes
    <2>2. Overlap(Reservation(x, kind[x]), Reservation(y, kind[y]))
      BY <1>3, <1>4, <1>8, <2>1 DEF Overlap
    <2>3. y < x
      BY <1>3, <1>4, <1>6, <1>8, <2>1
    <2> QED BY <2>2, <2>3 DEF IInv, ControlInv, SitesApart
  <1> QED BY <1>6, <1>7, <1>8

\* No site owns a byte of a range that a client holds, and no jump site's
\* window reaches into it.
LEMMA ClientDisjoint ==
  ASSUME IInv, NEW c \in pending, NEW y \in Sites
  PROVE  /\ OwnBytes(y) \cap ClientBytes(c) = {}
         /\ kind[y] # "rapid" =>
              (y .. y + WindowLen - 1) \cap ClientBytes(c) = {}
  <1> USE ScaleAssumption, SitesAssumption
  <1>1. y \in Addr /\ c \in Clients
    BY DEF Sites, IInv, ControlInv, TypeOK
  <1>2. SiteInv(y) /\ TypeOK /\ ClientInv(c)
    BY <1>1 DEF IInv, ControlInv
  <1>3. /\ y \in Int /\ dispEnd[y] \in Int /\ dispEnd[y] >= y + JumpLen
        /\ Reservation(y, kind[y])[1] \in Int /\ Reservation(y, kind[y])[2] \in Int
        /\ Reservation(y, kind[y])[1] <= y
        /\ Span(y)[1] \in Int /\ Span(y)[2] \in Int /\ Span(y)[1] <= y
        /\ dispEnd[y] <= Span(y)[2] /\ Reservation(y, kind[y])[2] <= Span(y)[2]
        /\ kind[y] # "rapid" => y + WindowLen <= Reservation(y, kind[y])[2]
    BY <1>2, SitePlace DEF SiteInv, Sites
  <1>4. ~Overlap(ClientRange(c), Span(y))
    BY <1>2 DEF ClientInv
  <1>5. SiteOf[c] \in Int
    BY <1>1 DEF Clients
  <1>6. SiteOf[c] >= Span(y)[2] \/ Span(y)[1] >= SiteOf[c] + JumpLen
    BY <1>3, <1>4, <1>5 DEF Overlap, ClientRange
  <1> QED BY <1>3, <1>5, <1>6 DEF OwnBytes, ClientBytes

\* Where a handle with a plan stands.
LEMMA HandlePlace ==
  ASSUME IInv, NEW h \in Handles, hpc[h] # "unplanned"
  PROVE  /\ site[h] \in JumpSites /\ site[h] \in Addr /\ site[h] \in Int
         /\ \A i \in Index : site[h] + i \in Addr
         /\ displaced[h] \in Nat /\ displaced[h] >= JumpLen
         /\ Own \subseteq Index
         /\ \A i \in Index : orig[h][i] \in Byte /\ tail[h][i] \in Byte
         /\ Bound(h) => site[h] \in Sites /\ kind[site[h]] \in {"word", "split"}
  <1> USE ScaleAssumption, SitesAssumption
  <1>1. TypeOK /\ HandleInv(h)
    BY DEF IInv, ControlInv
  <1>2. site[h] \in JumpSites /\ displaced[h] >= JumpLen /\ displaced[h] \in Nat
    BY <1>1 DEF HandleInv, TypeOK
  <1>3. site[h] \in Addr /\ site[h] \in Int /\ \A i \in Index : site[h] + i \in Addr
    <2>1. site[h] \in 0 .. CodeLen - WindowLen
      BY <1>2
    <2> QED BY <2>1 DEF Addr, Index
  <1>4. Own \subseteq Index
    <2> SUFFICES ASSUME NEW i \in Own PROVE i \in Index
      OBVIOUS
    <2> QED BY DEF Own, Index
  <1>5. \A i \in Index : orig[h][i] \in Byte /\ tail[h][i] \in Byte
    BY <1>1 DEF TypeOK, Image8
  <1>6. Bound(h) => site[h] \in Sites /\ kind[site[h]] \in {"word", "split"}
    BY <1>1, <1>2, <1>3, ReservationCovers DEF HandleInv, Sites
  <1> QED BY <1>2, <1>3, <1>4, <1>5, <1>6

\* Windows, jumps and images hold bytes.
LEMMA ImageTypes ==
  ASSUME IInv, NEW h \in Handles, hpc[h] # "unplanned"
  PROVE  /\ Window(mem, site[h]) \in Image8 /\ Canonical(h) \in Image8
         /\ \A o \in {"apply", "revert"} :
              /\ From(h, o) \in Image8 /\ To(h, o) \in Image8
              /\ Composed(site[h], From(h, o)) \in Image8
              /\ Composed(site[h], To(h, o)) \in Image8
  <1> USE ScaleAssumption, SitesAssumption
  <1> DEFINE x == site[h]
  <1>1. TypeOK
    BY DEF IInv, ControlInv
  <1>2. /\ x \in Int /\ \A i \in Index : x + i \in Addr
        /\ \A i \in Index : orig[h][i] \in Byte /\ tail[h][i] \in Byte
    BY HandlePlace
  <1>3. \A y \in Upper(x) : y \in Addr /\ y \in Int
    BY DEF Upper, Sites, Addr
  <1>4. \A y \in Addr, i \in Index :
          original[y][i] \in Byte /\ committed[y][i] \in Byte
    BY <1>1 DEF TypeOK, Image8
  <1>5. \A y \in Upper(x), i \in Index : y <= x + i => x + i - y \in Index
    BY <1>2, <1>3 DEF Index, Upper
  <1>6. Window(mem, x) \in Image8
    BY <1>1, <1>2 DEF TypeOK, Window, Image8
  <1>7. Canonical(h) \in Image8
    <2> SUFFICES ASSUME NEW i \in Index PROVE Canonical(h)[i] \in Byte
      BY DEF Canonical, Image8
    <2> DEFINE above == {y \in Upper(x) : y <= x + i}
    <2> DEFINE y == CHOOSE y \in above : TRUE
    <2>1. Canonical(h)[i] = IF Strategy(x) = "word" /\ above # {}
                            THEN original[y][x + i - y] ELSE orig[h][i]
      BY DEF Canonical
    <2>2. above # {} => y \in above
      OBVIOUS
    <2>3. above # {} => original[y][x + i - y] \in Byte
      BY <2>2, <1>3, <1>4, <1>5
    <2> HIDE DEF y, above
    <2> QED BY <2>1, <2>3, <1>2
  <1>8. h \in Byte
    BY DEF Byte
  <1>9. ASSUME NEW o \in {"apply", "revert"}
        PROVE  From(h, o) \in Image8 /\ To(h, o) \in Image8
    BY <1>2, <1>8 DEF From, To, Image, Jump, WithTail, Image8
  <1>10. ASSUME NEW img \in Image8
         PROVE  Composed(x, img) \in Image8
    <2> SUFFICES ASSUME NEW i \in Index PROVE Composed(x, img)[i] \in Byte
      BY DEF Composed, Image8
    <2> DEFINE over == {y \in Upper(x) : y <= x + i /\ x + i < y + JumpLen}
    <2> DEFINE y == CHOOSE y \in over : TRUE
    <2>1. Composed(x, img)[i] = IF over # {} THEN committed[y][x + i - y]
                                             ELSE img[i]
      BY DEF Composed
    <2>2. over # {} => y \in over
      OBVIOUS
    <2>3. over # {} => committed[y][x + i - y] \in Byte
      BY <2>2, <1>3, <1>4, <1>5
    <2>4. img[i] \in Byte
      BY DEF Image8
    <2> HIDE DEF y, over
    <2> QED BY <2>1, <2>3, <2>4
  <1> QED BY <1>6, <1>7, <1>9, <1>10

\* Every step keeps the types.
LEMMA TypeKept ==
  ASSUME IInv, [Next]_vars PROVE TypeOK'
  <1> USE ScaleAssumption, SitesAssumption
  <1>1. TypeOK
    BY DEF IInv, ControlInv
  <1>2. CASE UNCHANGED vars
    BY <1>1, <1>2 DEF TypeOK, vars, registry, plans
  <1>3. ASSUME NEW h \in Handles, NEW x \in JumpSites, Plan(h, x) PROVE TypeOK'
    <2>1. x \in Addr /\ Window(mem, x) \in Image8 /\ Displaced[x] \in Nat
      BY <1>1 DEF TypeOK, Window, Image8, Addr, Index
    <2>2. \A n \in Nat : displaced' = [displaced EXCEPT ![h] = n]
            => displaced' \in [Handles -> Nat]
      BY <1>1 DEF TypeOK
    <2>3. displaced' \in [Handles -> Nat]
      BY <1>3, <2>1, <2>2 DEF Plan
    <2> QED BY <1>1, <1>3, <2>1, <2>3 DEF TypeOK, Plan, registry
  <1>4. ASSUME NEW h \in Handles, Bind(h) PROVE TypeOK'
    <2>1. site[h] \in Addr /\ site[h] \in Int /\ displaced[h] \in Nat
          /\ Strategy(site[h]) \in {"word", "split"}
      BY <1>4, HandlePlace, ReservationCovers DEF Bind
    <2>2. Canonical(h) \in Image8
      BY <1>4, ImageTypes DEF Bind
    <2>3. NewEnd(h) \in Nat
      BY <1>1, <2>1 DEF NewEnd, TypeOK, Addr
    <2>4. /\ kind' \in [Addr -> {"none", "word", "split", "rapid"}]
          /\ original' \in [Addr -> Image8] /\ committed' \in [Addr -> Image8]
      BY <1>1, <1>4, <2>1, <2>2 DEF TypeOK, Bind
    <2> QED BY <1>1, <1>4, <2>1, <2>2, <2>3, <2>4 DEF TypeOK, Bind
  <1>5. ASSUME NEW h \in Handles, BindFails(h) PROVE TypeOK'
    BY <1>1, <1>5 DEF TypeOK, BindFails, registry, plans
  <1>6. ASSUME NEW h \in Handles, NEW o \in {"apply", "revert"}, Begin(h, o)
        PROVE  TypeOK'
    <2>1. /\ From(h, o) \in Image8 /\ To(h, o) \in Image8
          /\ Composed(site[h], From(h, o)) \in Image8
          /\ Composed(site[h], To(h, o)) \in Image8
      BY <1>6, ImageTypes DEF Begin
    <2>2. exp' \in [Handles -> Image8] /\ rep' \in [Handles -> Image8]
      BY <1>1, <1>6, <2>1 DEF TypeOK, Begin
    <2> QED BY <1>1, <1>6, <2>2 DEF TypeOK, Begin, plans
  <1>7. ASSUME NEW h \in Handles, NEW o \in {"apply", "revert"}, BeginFails(h, o)
        PROVE  TypeOK'
    BY <1>1, <1>7 DEF TypeOK, BeginFails, registry, plans
  <1>8. ASSUME NEW h \in Handles, Compare(h) PROVE TypeOK'
    BY <1>1, <1>8 DEF TypeOK, Compare, registry, plans
  <1>9. ASSUME NEW h \in Handles, Store(h) PROVE TypeOK'
    <2>1. \A i \in Index : rep[h][i] \in Byte
      BY <1>1 DEF TypeOK, Image8
    <2>2. site[h] \in Int
      BY <1>9, HandlePlace DEF Store
    <2>3. \A a \in Addr : a \in site[h] .. site[h] + WindowLen - 1
                            => a - site[h] \in Index
      BY <2>2 DEF Addr, Index
    <2>4. mem' \in [Addr -> Byte]
      BY <1>1, <1>9, <2>1, <2>3 DEF TypeOK, Store, Stored
    <2> QED BY <1>1, <1>9, <2>4 DEF TypeOK, Store, registry, plans
  <1>10. ASSUME NEW h \in Handles, Finish(h) PROVE TypeOK'
    BY <1>1, <1>10 DEF TypeOK, Finish, Record, Release, plans
  <1>11. ASSUME NEW c \in Clients, Reserve(c) PROVE TypeOK'
    BY <1>1, <1>11 DEF TypeOK, Reserve, Held, plans
  <1>12. ASSUME NEW c \in Clients, Cancel(c) PROVE TypeOK'
    BY <1>1, <1>12 DEF TypeOK, Cancel, Held, plans
  <1>13. ASSUME NEW c \in Clients, RapidCommit(c) PROVE TypeOK'
    <2>1. SiteOf[c] \in Addr /\ SiteOf[c] + JumpLen \in Nat
      BY DEF Clients, Addr
    <2> QED BY <1>1, <1>13, <2>1 DEF TypeOK, RapidCommit, Held, plans
  <1>14. ASSUME NEW c \in Clients, NEW b \in {"orig", c}, RapidToggle(c, b)
         PROVE  TypeOK'
    BY <1>1, <1>14 DEF TypeOK, RapidToggle, registry, plans, Byte
  <1>15. ASSUME NEW c \in Clients, QuiescentWrite(c) PROVE TypeOK'
    BY <1>1, <1>15 DEF TypeOK, QuiescentWrite, Held, registry, plans, Byte
  <1>16. ASSUME NEW c \in Clients, QuiescentRetire(c) PROVE TypeOK'
    BY <1>1, <1>16 DEF TypeOK, QuiescentRetire, Held, registry, plans, Byte
  <1>17. ASSUME NEW c \in Clients, QuiescentRelease(c) PROVE TypeOK'
    BY <1>1, <1>17 DEF TypeOK, QuiescentRelease, Held, plans
  <1> QED
    BY <1>2, <1>3, <1>4, <1>5, <1>6, <1>7, <1>8, <1>9, <1>10, <1>11, <1>12,
       <1>13, <1>14, <1>15, <1>16, <1>17 DEF Next, HandleStep, ClientStep

-----------------------------------------------------------------------------
(* Who holds what.                                                         *)

\* A step that leaves the registry and the clients' state alone, and neither
\* binds nor releases a handle, changes nothing of who holds what.
LEMMA RegistryUntouched ==
  ASSUME IInv, TypeOK',
         UNCHANGED <<kind, dispEnd, phase, pending>>,
         \A c \in Clients :
           \/ cpc'[c] = cpc[c]
           \/ c \in Quiescents /\ cpc[c] = "reserved" /\ cpc'[c] = "installed"
           \/ c \in Quiescents /\ cpc[c] = "installed" /\ cpc'[c] = "restored",
         \A h \in Handles :
           \/ UNCHANGED <<hpc[h], site[h], displaced[h]>>
           \/ Writing(h) /\ Writing(h)' /\ UNCHANGED <<site[h], displaced[h]>>
           \/ /\ ~Bound(h) /\ hpc'[h] \in {"unplanned", "planned"}
              /\ site'[h] \in JumpSites /\ displaced'[h] >= JumpLen
  PROVE  ControlInv'
  <1>1. ControlInv
    BY DEF IInv
  <1>2. Sites' = Sites
    BY DEF Sites
  <1>3. \A h \in Handles :
          /\ Writing(h)' <=> Writing(h)
          /\ Bound(h)' <=> Bound(h)
          /\ Bound(h) => UNCHANGED <<site[h], displaced[h]>>
    BY DEF Writing, Bound
  <1>4. \A h \in Handles : Writing(h) => Bound(h)
    BY DEF Writing, Bound
  <1>5. ASSUME NEW x \in Addr PROVE SiteInv(x)'
    <2>1. SiteInv(x)
      BY <1>1 DEF ControlInv
    <2>2. kind[x] = "rapid" =>
            \E c \in Rapids : cpc'[c] = "installed" /\ SiteOf[c] = x
      BY <2>1, ClientsAssumption DEF SiteInv, Clients
    <2>3. phase[x] = "WRITING" => \E h \in Handles : Writing(h)' /\ site'[h] = x
      BY <2>1, <1>3, <1>4 DEF SiteInv
    <2> QED BY <2>1, <2>2, <2>3 DEF SiteInv
  <1>6. ASSUME NEW c \in Clients PROVE ClientInv(c)'
    <2>1. ClientInv(c)
      BY <1>1 DEF ControlInv
    <2>2. \A y \in Sites : Span(y)' = Span(y)
      BY DEF Span
    <2> QED BY <2>1, <2>2, <1>2, ClientsAssumption DEF ClientInv, Clients
  <1>7. ASSUME NEW h \in Handles PROVE HandleInv(h)'
    <2>1. HandleInv(h)
      BY <1>1 DEF ControlInv
    <2> QED BY <2>1, <1>3, <1>4 DEF HandleInv, Bound, Writing
  <1>8. SitesApart' /\ ClientsApart'
    <2>1. \A c \in Clients : Claimed(c)' <=> Claimed(c)
      BY ClientsAssumption DEF Claimed
    <2> QED BY <1>1, <1>2, <2>1
            DEF ControlInv, SitesApart, ClientsApart, ClientRange
  <1>9. WritersApart'
    BY <1>1, <1>3, <1>4 DEF ControlInv, WritersApart
  <1>10. LocksApart'
    BY <1>1, <1>2 DEF ControlInv, LocksApart
  <1> QED BY <1>5, <1>6, <1>7, <1>8, <1>9, <1>10 DEF ControlInv

LEMMA PlanControl ==
  ASSUME IInv, TypeOK', NEW h \in Handles, NEW x \in JumpSites, Plan(h, x)
  PROVE  ControlInv'
  <1>1. /\ site' = [site EXCEPT ![h] = x] /\ hpc' = [hpc EXCEPT ![h] = "planned"]
        /\ hpc[h] = "unplanned"
        /\ \/ displaced' = [displaced EXCEPT ![h] = Displaced[x]]
           \/ displaced' = [displaced EXCEPT ![h] = JumpLen]
    BY DEF Plan
  <1>2. displaced'[h] >= JumpLen
    BY <1>1, SitesAssumption, ScaleAssumption DEF IInv, TypeOK
  <1>3. \A g \in Handles : g # h => UNCHANGED <<hpc[g], site[g], displaced[g]>>
    BY <1>1 DEF IInv, TypeOK
  <1>4. ~Bound(h) /\ hpc'[h] = "planned" /\ site'[h] = x
    BY <1>1 DEF IInv, TypeOK, Bound
  <1> QED BY <1>2, <1>3, <1>4, RegistryUntouched DEF Plan, registry

LEMMA LocalControl ==
  ASSUME IInv, TypeOK', NEW h \in Handles,
         \/ BindFails(h) \/ Compare(h) \/ Store(h) \/ Record(h)
         \/ \E o \in {"apply", "revert"} : BeginFails(h, o)
  PROVE  ControlInv'
  <1>1. HandleInv(h) /\ TypeOK
    BY DEF IInv, ControlInv
  <1>2. /\ UNCHANGED <<kind, dispEnd, phase, pending, cpc, site, displaced>>
        /\ \/ hpc' = hpc
           \/ hpc[h] = "planned" /\ hpc' = [hpc EXCEPT ![h] = "unplanned"]
           \/ Writing(h) /\ \E s \in {"store", "finish", "release"} :
                              hpc' = [hpc EXCEPT ![h] = s]
    BY DEF BindFails, Compare, Store, Record, BeginFails, Writing, plans, registry
  <1>3. \A g \in Handles : g # h => UNCHANGED <<hpc[g], site[g], displaced[g]>>
    BY <1>1, <1>2 DEF TypeOK
  <1>4. \/ UNCHANGED <<hpc[h], site[h], displaced[h]>>
        \/ Writing(h) /\ Writing(h)' /\ UNCHANGED <<site[h], displaced[h]>>
        \/ /\ ~Bound(h) /\ hpc'[h] \in {"unplanned", "planned"}
           /\ site'[h] \in JumpSites /\ displaced'[h] >= JumpLen
    BY <1>1, <1>2 DEF TypeOK, Writing, Bound, HandleInv
  <1> QED BY <1>2, <1>3, <1>4, RegistryUntouched

LEMMA WriteControl ==
  ASSUME IInv, TypeOK', NEW c \in Clients,
         \/ \E b \in {"orig", c} : RapidToggle(c, b)
         \/ QuiescentWrite(c) \/ QuiescentRetire(c)
  PROVE  ControlInv'
  <1>1. TypeOK /\ ClientInv(c)
    BY DEF IInv, ControlInv
  <1>2. /\ UNCHANGED <<registry, hpc, site, displaced>>
        /\ \/ cpc' = cpc
           \/ /\ c \in Quiescents /\ cpc[c] = "reserved"
              /\ cpc' = [cpc EXCEPT ![c] = "installed"]
           \/ /\ c \in Quiescents /\ cpc[c] = "installed"
              /\ cpc' = [cpc EXCEPT ![c] = "restored"]
    BY DEF RapidToggle, QuiescentWrite, QuiescentRetire, Held, plans
  <1>3. \A d \in Clients :
           \/ cpc'[d] = cpc[d]
           \/ d \in Quiescents /\ cpc[d] = "reserved" /\ cpc'[d] = "installed"
           \/ d \in Quiescents /\ cpc[d] = "installed" /\ cpc'[d] = "restored"
    BY <1>1, <1>2 DEF TypeOK
  <1> QED BY <1>2, <1>3, RegistryUntouched DEF registry

LEMMA BeginControl ==
  ASSUME IInv, TypeOK', NEW h \in Handles, NEW o \in {"apply", "revert"},
         Begin(h, o)
  PROVE  ControlInv'
  <1> DEFINE x == site[h]
  <1>1. ControlInv /\ TypeOK
    BY DEF IInv
  <1>2. /\ hpc[h] = "bound" /\ Free(x)
        /\ phase' = [phase EXCEPT ![x] = "WRITING"]
        /\ hpc' = [hpc EXCEPT ![h] = "compare"]
        /\ UNCHANGED <<kind, dispEnd, pending, site, displaced, cpc>>
    BY DEF Begin, plans
  <1>3. x \in Sites /\ x \in Addr /\ kind[x] \in {"word", "split"}
    BY <1>2, HandlePlace DEF Bound
  <1>4. phase[x] = "IDLE"
    <2>1. kind[x] = "word" => x \in Shared(x)
      BY <1>1, <1>3, SitePlace, ScaleAssumption
         DEF Shared, ControlInv, Overlap
    <2> QED BY <1>2, <1>3, <2>1 DEF Free
  <1>5. /\ phase'[x] = "WRITING" /\ \A y \in Addr : y # x => phase'[y] = phase[y]
        /\ hpc'[h] = "compare" /\ \A g \in Handles : g # h => hpc'[g] = hpc[g]
    BY <1>1, <1>2, <1>3 DEF TypeOK
  <1>6. Sites' = Sites
    BY <1>2 DEF Sites
  <1>7. \A g \in Handles : Writing(g) => site[g] # x /\ g # h
    BY <1>1, <1>2, <1>4 DEF ControlInv, HandleInv, Writing
  <1>8. ASSUME NEW y \in Addr PROVE SiteInv(y)'
    <2>1. SiteInv(y)
      BY <1>1 DEF ControlInv
    <2>2. phase'[y] = "WRITING" => \E g \in Handles : Writing(g)' /\ site'[g] = y
      BY <1>2, <1>5, <2>1 DEF SiteInv, Writing
    <2> QED BY <1>2, <2>1, <2>2 DEF SiteInv
  <1>9. ASSUME NEW c \in Clients PROVE ClientInv(c)'
    <2>1. ClientInv(c)
      BY <1>1 DEF ControlInv
    <2>2. \A y \in Sites : Span(y)' = Span(y)
      BY <1>2 DEF Span
    <2> QED BY <1>2, <1>6, <2>1, <2>2 DEF ClientInv
  <1>10. ASSUME NEW g \in Handles PROVE HandleInv(g)'
    <2>1. HandleInv(g)
      BY <1>1 DEF ControlInv
    <2> QED BY <1>2, <1>5, <2>1 DEF HandleInv, Bound, Writing
  <1>11. SitesApart' /\ ClientsApart'
    BY <1>1, <1>2, <1>6
       DEF ControlInv, SitesApart, ClientsApart, Claimed, ClientRange
  <1>12. WritersApart'
    BY <1>1, <1>2, <1>5, <1>7 DEF ControlInv, WritersApart, Writing
  <1>13. LocksApart'
    <2> SUFFICES ASSUME NEW y \in Sites, y # x, kind[y] # "rapid",
                        phase[y] = "WRITING"
                 PROVE  /\ ~Overlap(<<x, x + WindowLen>>, <<y, y + WindowLen>>)
                        /\ ~Overlap(<<y, y + WindowLen>>, <<x, x + WindowLen>>)
      BY <1>1, <1>2, <1>3, <1>5, <1>6 DEF ControlInv, LocksApart, Sites
    <2>1. y \notin Shared(x) \/ kind[x] # "word"
      BY <1>2 DEF Free
    <2>2. ~Overlap(Reservation(x, kind[x]), Reservation(y, kind[y]))
      BY <1>1, <1>3, <2>1 DEF Shared, ControlInv, SitesApart
    <2>3. /\ x \in Int /\ Reservation(x, kind[x])[1] \in Int
          /\ Reservation(x, kind[x])[2] \in Int
          /\ Reservation(x, kind[x])[1] <= x
          /\ x + WindowLen <= Reservation(x, kind[x])[2]
      BY <1>1, <1>3, SitePlace DEF ControlInv, SiteInv
    <2>4. /\ y \in Int /\ Reservation(y, kind[y])[1] \in Int
          /\ Reservation(y, kind[y])[2] \in Int
          /\ Reservation(y, kind[y])[1] <= y
          /\ y + WindowLen <= Reservation(y, kind[y])[2]
      BY <1>1, SitePlace DEF ControlInv, SiteInv, Sites, TypeOK
    <2> QED BY <2>2, <2>3, <2>4, ScaleAssumption DEF Overlap
  <1> QED BY <1>8, <1>9, <1>10, <1>11, <1>12, <1>13 DEF ControlInv

LEMMA ReleaseControl ==
  ASSUME IInv, TypeOK', NEW h \in Handles, Release(h)
  PROVE  ControlInv'
  <1> DEFINE x == site[h]
  <1>1. ControlInv /\ TypeOK
    BY DEF IInv
  <1>2. /\ hpc[h] = "release"
        /\ phase' = [phase EXCEPT ![x] = "IDLE"]
        /\ hpc' = [hpc EXCEPT ![h] = "bound"]
        /\ UNCHANGED <<kind, dispEnd, pending, site, displaced, cpc>>
    BY DEF Release, plans
  <1>3. x \in Sites /\ x \in Addr /\ kind[x] \in {"word", "split"}
    BY <1>2, HandlePlace DEF Bound
  <1>4. /\ phase'[x] = "IDLE" /\ \A y \in Addr : y # x => phase'[y] = phase[y]
        /\ hpc'[h] = "bound" /\ \A g \in Handles : g # h => hpc'[g] = hpc[g]
    BY <1>1, <1>2, <1>3 DEF TypeOK
  <1>5. Sites' = Sites
    BY <1>2 DEF Sites
  <1>6. \A g \in Handles : g # h /\ Writing(g) => site[g] # x
    BY <1>1, <1>2 DEF ControlInv, WritersApart, Writing
  <1>7. ASSUME NEW y \in Addr PROVE SiteInv(y)'
    <2>1. SiteInv(y)
      BY <1>1 DEF ControlInv
    <2>2. phase'[y] = "WRITING" => \E g \in Handles : Writing(g)' /\ site'[g] = y
      BY <1>2, <1>4, <2>1 DEF SiteInv, Writing
    <2> QED BY <1>2, <2>1, <2>2 DEF SiteInv
  <1>8. ASSUME NEW c \in Clients PROVE ClientInv(c)'
    <2>1. ClientInv(c)
      BY <1>1 DEF ControlInv
    <2>2. \A y \in Sites : Span(y)' = Span(y)
      BY <1>2 DEF Span
    <2> QED BY <1>2, <1>5, <2>1, <2>2 DEF ClientInv
  <1>9. ASSUME NEW g \in Handles PROVE HandleInv(g)'
    <2>1. HandleInv(g)
      BY <1>1 DEF ControlInv
    <2>2. Writing(g)' => phase'[site'[g]] = "WRITING"
      <3>1. Writing(g)' => g # h /\ Writing(g)
        BY <1>4 DEF Writing
      <3>2. Writing(g) => site[g] \in Addr
        BY <1>1 DEF TypeOK
      <3> QED BY <1>2, <1>4, <1>6, <2>1, <3>1, <3>2 DEF HandleInv
    <2> QED BY <1>2, <1>4, <2>1, <2>2 DEF HandleInv, Bound
  <1>10. SitesApart' /\ ClientsApart'
    BY <1>1, <1>2, <1>5
       DEF ControlInv, SitesApart, ClientsApart, Claimed, ClientRange
  <1>11. WritersApart'
    BY <1>1, <1>2, <1>4 DEF ControlInv, WritersApart, Writing
  <1>12. LocksApart'
    BY <1>1, <1>2, <1>3, <1>4, <1>5 DEF ControlInv, LocksApart, Sites
  <1> QED BY <1>7, <1>8, <1>9, <1>10, <1>11, <1>12 DEF ControlInv

LEMMA ReserveControl ==
  ASSUME IInv, TypeOK', NEW c \in Clients, Reserve(c)
  PROVE  ControlInv'
  <1>1. ControlInv /\ TypeOK
    BY DEF IInv
  <1>2. /\ cpc[c] = "none" /\ pending' = pending \cup {c}
        /\ cpc' = [cpc EXCEPT ![c] = "reserved"]
        /\ \A y \in Sites : ~Overlap(ClientRange(c), Span(y))
        /\ \A d \in pending : ~Overlap(ClientRange(c), ClientRange(d))
        /\ UNCHANGED <<kind, dispEnd, phase, hpc, site, displaced>>
    BY DEF Reserve, Held, plans, PendingOverlaps
  <1>3. cpc'[c] = "reserved" /\ \A d \in Clients : d # c => cpc'[d] = cpc[d]
    BY <1>1, <1>2 DEF TypeOK
  <1>4. Sites' = Sites /\ \A y \in Sites : Span(y)' = Span(y)
    BY <1>2 DEF Sites, Span
  <1>5. ASSUME NEW x \in Addr PROVE SiteInv(x)'
    <2>1. SiteInv(x)
      BY <1>1 DEF ControlInv
    <2> QED BY <1>2, <1>3, <2>1 DEF SiteInv, Clients, Writing
  <1>6. ASSUME NEW d \in Clients PROVE ClientInv(d)'
    <2>1. ClientInv(d)
      BY <1>1 DEF ControlInv
    <2> QED BY <1>2, <1>3, <1>4, <2>1, ClientsAssumption DEF ClientInv
  <1>7. ClientsApart'
    <2>1. \A d \in Clients : SiteOf[d] \in Int
      BY SitesAssumption DEF Clients
    <2>2. ASSUME NEW d \in Clients, d # c, Claimed(d)
          PROVE  ~Overlap(ClientRange(c), ClientRange(d))
      <3>1. CASE d \in pending
        BY <1>2, <3>1
      <3>2. CASE d \in Rapids /\ cpc[d] = "installed"
        <4>1. /\ SiteOf[d] \in Sites /\ kind[SiteOf[d]] = "rapid"
              /\ dispEnd[SiteOf[d]] = SiteOf[d] + JumpLen
          BY <1>1, <3>2, SitesAssumption, ScaleAssumption
             DEF ControlInv, ClientInv, Sites, Addr, Clients
        <4>2. Span(SiteOf[d]) = ClientRange(d)
          BY <2>1, <4>1 DEF Span, Reservation, ClientRange
        <4> QED BY <1>2, <4>1, <4>2
      <3> QED BY <2>2, <3>1, <3>2 DEF Claimed
    <2>3. \A d \in Clients : d # c /\ Claimed(d)' => Claimed(d)
      BY <1>2, <1>3 DEF Claimed
    <2>4. \A d \in Clients : d # c /\ Claimed(d)
            => ~Overlap(ClientRange(d), ClientRange(c))
      BY <2>1, <2>2 DEF Overlap, ClientRange
    <2> QED BY <1>1, <2>2, <2>3, <2>4 DEF ControlInv, ClientsApart, ClientRange
  <1>8. \A g \in Handles : HandleInv(g)'
    BY <1>1, <1>2 DEF ControlInv, HandleInv, Bound, Writing
  <1>9. SitesApart' /\ WritersApart' /\ LocksApart'
    BY <1>1, <1>2, <1>4 DEF ControlInv, SitesApart, WritersApart, LocksApart, Writing
  <1> QED BY <1>5, <1>6, <1>7, <1>8, <1>9 DEF ControlInv

LEMMA GiveUpControl ==
  ASSUME IInv, TypeOK', NEW c \in Clients, Cancel(c) \/ QuiescentRelease(c)
  PROVE  ControlInv'
  <1>1. ControlInv /\ TypeOK
    BY DEF IInv
  <1>2. /\ pending' = pending \ {c}
        /\ \/ cpc[c] = "reserved" /\ cpc' = [cpc EXCEPT ![c] = "none"]
           \/ cpc[c] = "restored" /\ cpc' = [cpc EXCEPT ![c] = "retired"]
        /\ UNCHANGED <<kind, dispEnd, phase, hpc, site, displaced>>
    BY DEF Cancel, QuiescentRelease, Held, plans
  <1>3. /\ cpc'[c] \in {"none", "retired"}
        /\ c \in Rapids => cpc'[c] = "none"
        /\ cpc[c] # "installed"
        /\ \A d \in Clients : d # c => cpc'[d] = cpc[d]
    BY <1>1, <1>2 DEF TypeOK, ControlInv, ClientInv
  <1>4. Sites' = Sites /\ \A y \in Sites : Span(y)' = Span(y)
    BY <1>2 DEF Sites, Span
  <1>5. ASSUME NEW x \in Addr PROVE SiteInv(x)'
    <2>1. SiteInv(x)
      BY <1>1 DEF ControlInv
    <2> QED BY <1>2, <1>3, <2>1 DEF SiteInv, Clients, Writing
  <1>6. ASSUME NEW d \in Clients PROVE ClientInv(d)'
    <2>1. ClientInv(d)
      BY <1>1 DEF ControlInv
    <2> QED BY <1>2, <1>3, <1>4, <2>1, ClientsAssumption DEF ClientInv
  <1>7. ClientsApart'
    BY <1>1, <1>2, <1>3 DEF ControlInv, ClientsApart, Claimed, ClientRange
  <1>8. \A g \in Handles : HandleInv(g)'
    BY <1>1, <1>2 DEF ControlInv, HandleInv, Bound, Writing
  <1>9. SitesApart' /\ WritersApart' /\ LocksApart'
    BY <1>1, <1>2, <1>4 DEF ControlInv, SitesApart, WritersApart, LocksApart, Writing
  <1> QED BY <1>5, <1>6, <1>7, <1>8, <1>9 DEF ControlInv

\* The range of a rapid probe that commits is nobody else's.
LEMMA RapidCommitControl ==
  ASSUME IInv, TypeOK', NEW c \in Clients, RapidCommit(c)
  PROVE  ControlInv'
  <1> USE ScaleAssumption
  <1> DEFINE x == SiteOf[c]
  <1>1. ControlInv /\ TypeOK
    BY DEF IInv
  <1>2. /\ c \in Rapids /\ cpc[c] = "reserved" /\ pending' = pending \ {c}
        /\ cpc' = [cpc EXCEPT ![c] = "installed"]
        /\ kind' = [kind EXCEPT ![x] = "rapid"]
        /\ dispEnd' = [dispEnd EXCEPT ![x] = x + JumpLen]
        /\ UNCHANGED <<phase, hpc, site, displaced>>
    BY DEF RapidCommit, Held, plans
  <1>3. x \in Addr /\ x \in Int /\ c \in pending
    BY <1>1, <1>2, SitesAssumption DEF ControlInv, ClientInv, Clients, Addr
  <1>4. /\ kind'[x] = "rapid" /\ dispEnd'[x] = x + JumpLen
        /\ \A y \in Addr : y # x => kind'[y] = kind[y] /\ dispEnd'[y] = dispEnd[y]
        /\ cpc'[c] = "installed" /\ \A d \in Clients : d # c => cpc'[d] = cpc[d]
    BY <1>1, <1>2, <1>3 DEF TypeOK
  <1>5. ASSUME NEW y \in Sites
        PROVE  /\ y \in Addr /\ y \in Int /\ dispEnd[y] \in Int
               /\ y < dispEnd[y] /\ x # y
               /\ dispEnd[y] <= x \/ x + JumpLen <= y
               /\ ~Overlap(Reservation(x, "rapid"), Reservation(y, kind[y]))
               /\ ~Overlap(Reservation(y, kind[y]), Reservation(x, "rapid"))
    <2>1. SiteInv(y) /\ ClientInv(c) /\ y \in Addr
      BY <1>1 DEF ControlInv, Sites
    <2>2. ~Overlap(<<x, x + JumpLen>>, Span(y))
      BY <1>3, <2>1 DEF ClientInv, ClientRange
    <2>3. /\ y \in Int /\ dispEnd[y] \in Int /\ dispEnd[y] >= y + JumpLen
          /\ Reservation(y, kind[y])[1] \in Int
          /\ Reservation(y, kind[y])[2] \in Int
          /\ Span(y)[1] \in Int /\ Span(y)[2] \in Int
          /\ Span(y)[1] <= y
          /\ Span(y)[1] <= Reservation(y, kind[y])[1]
          /\ dispEnd[y] <= Span(y)[2]
          /\ Reservation(y, kind[y])[2] <= Span(y)[2]
      BY <1>1, <2>1, SitePlace
    <2>4. Reservation(x, "rapid") = <<x, x + JumpLen>>
      BY DEF Reservation
    <2>5. Span(y)[2] <= x \/ x + JumpLen <= Span(y)[1]
      BY <1>3, <2>2, <2>3 DEF Overlap
    <2> QED BY <1>3, <2>1, <2>3, <2>4, <2>5 DEF Overlap
  <1>6. x \notin Sites /\ Sites' = Sites \cup {x} /\ kind[x] = "none"
    BY <1>3, <1>4, <1>5 DEF Sites
  <1>7. \A g \in Handles : Bound(g) => site[g] \in Sites /\ site[g] # x
    BY <1>6, HandlePlace DEF Bound
  <1>8. ASSUME NEW y \in Addr PROVE SiteInv(y)'
    <2>1. SiteInv(y)
      BY <1>1 DEF ControlInv
    <2>2. kind'[y] = "rapid" =>
            \E d \in Rapids : cpc'[d] = "installed" /\ SiteOf[d] = y
      BY <1>2, <1>4, <2>1 DEF SiteInv, Clients
    <2>3. phase[y] = "WRITING" => \E h \in Handles : Writing(h)' /\ site'[h] = y
      BY <1>2, <2>1 DEF SiteInv, Writing
    <2> QED BY <1>2, <1>3, <1>4, <2>1, <2>2, <2>3 DEF SiteInv
  <1>9. ASSUME NEW d \in Clients PROVE ClientInv(d)'
    <2>1. ClientInv(d)
      BY <1>1 DEF ControlInv
    <2>2. \A y \in Sites : Span(y)' = Span(y)
      BY <1>4, <1>5 DEF Span
    <2>3. Span(x)' = <<x, x + JumpLen>>
      BY <1>3, <1>4 DEF Span, Reservation
    <2>4. d \in pending' => ~Overlap(ClientRange(d), <<x, x + JumpLen>>)
      BY <1>1, <1>2, <1>3 DEF ControlInv, ClientsApart, Claimed, ClientRange
    <2>5. d \in pending' => \A y \in Sites' : ~Overlap(ClientRange(d), Span(y)')
      BY <1>2, <1>6, <2>1, <2>2, <2>3, <2>4 DEF ClientInv
    <2>6. d # c /\ d \in Rapids /\ cpc[d] = "installed" => SiteOf[d] \in Sites
      BY <2>1, SitesAssumption DEF ClientInv, Sites, Clients, Addr
    <2>7. d \in Rapids /\ cpc'[d] = "installed" =>
            /\ kind'[SiteOf[d]] = "rapid"
            /\ dispEnd'[SiteOf[d]] = SiteOf[d] + JumpLen
      BY <1>4, <1>5, <1>6, <2>1, <2>6 DEF ClientInv
    <2>8. /\ d \in pending' <=>
                \/ cpc'[d] = "reserved"
                \/ d \in Quiescents /\ cpc'[d] \in {"installed", "restored"}
          /\ d \in Rapids => cpc'[d] \in {"none", "reserved", "installed"}
      BY <1>2, <1>4, <2>1, ClientsAssumption DEF ClientInv
    <2> QED BY <2>5, <2>7, <2>8 DEF ClientInv, ClientRange
  <1>10. ClientsApart'
    BY <1>1, <1>2, <1>3, <1>4 DEF ControlInv, ClientsApart, Claimed, ClientRange
  <1>11. ASSUME NEW g \in Handles PROVE HandleInv(g)'
    <2>1. HandleInv(g) /\ Writing(g)' = Writing(g) /\ Bound(g)' = Bound(g)
      BY <1>1, <1>2 DEF ControlInv, Writing, Bound
    <2>2. Bound(g) => /\ kind'[site[g]] = kind[site[g]]
                      /\ dispEnd'[site[g]] = dispEnd[site[g]]
      BY <1>4, <1>5, <1>7
    <2> QED BY <1>2, <2>1, <2>2 DEF HandleInv
  <1>12. SitesApart'
    <2> SUFFICES ASSUME NEW y \in Sites', NEW z \in Sites', y # z
                 PROVE  /\ ~Overlap(<<y, dispEnd'[y]>>, <<z, dispEnd'[z]>>)
                        /\ Overlap(Reservation(y, kind'[y]), Reservation(z, kind'[z]))
                             => kind'[y] = "word" /\ kind'[z] = "word"
      BY DEF SitesApart
    <2>1. CASE y = x
      BY <1>3, <1>4, <1>5, <1>6, <2>1 DEF Overlap
    <2>2. CASE z = x
      BY <1>3, <1>4, <1>5, <1>6, <2>2 DEF Overlap
    <2>3. CASE y # x /\ z # x
      BY <1>1, <1>4, <1>5, <1>6, <2>3 DEF ControlInv, SitesApart
    <2> QED BY <2>1, <2>2, <2>3
  <1>13. WritersApart'
    BY <1>1, <1>2 DEF ControlInv, WritersApart, Writing
  <1>14. LocksApart'
    BY <1>1, <1>2, <1>4, <1>5, <1>6 DEF ControlInv, LocksApart
  <1> QED BY <1>8, <1>9, <1>10, <1>11, <1>12, <1>13, <1>14 DEF ControlInv

\* What register_inner has checked of the site a handle is bound to.
LEMMA BindChecked ==
  ASSUME IInv, NEW h \in Handles, Bind(h)
  PROVE  LET x == site[h]
         IN  /\ x \in JumpSites /\ x \in Addr /\ x \in Int
             /\ Strategy(x) \in {"word", "split"}
             /\ kind[x] \in {"none", Strategy(x)}
             /\ NewEnd(h) \in Nat /\ NewEnd(h) >= x + displaced[h]
             /\ NewEnd(h) >= x + JumpLen
             /\ kind[x] # "none" => NewEnd(h) >= dispEnd[x]
             /\ Range(h)[1] \in Int /\ Range(h)[2] \in Int
             /\ Range(h)[1] <= x /\ x + WindowLen <= Range(h)[2]
             /\ Range(h) = Reservation(x, Strategy(x))
             /\ \A y \in Sites \ {x} :
                  /\ ~Overlap(<<x, NewEnd(h)>>, <<y, dispEnd[y]>>)
                  /\ Overlap(Range(h), Reservation(y, kind[y])) =>
                       /\ kind[y] = "word" /\ Strategy(x) = "word"
                       /\ phase[y] # "WRITING"
             /\ \A c \in pending :
                  ~Overlap(<<IF Range(h)[1] < x THEN Range(h)[1] ELSE x,
                             IF Range(h)[2] > NewEnd(h) THEN Range(h)[2]
                                                        ELSE NewEnd(h)>>,
                           ClientRange(c))
  <1> DEFINE x == site[h]
  <1>1. hpc[h] = "planned" /\ ~BindContended(h) /\ ~BindRefused(h)
    BY DEF Bind
  <1>2. /\ x \in JumpSites /\ x \in Addr /\ x \in Int
        /\ displaced[h] \in Nat /\ displaced[h] >= JumpLen
    BY <1>1, HandlePlace
  <1>3. /\ Strategy(x) \in {"word", "split"}
        /\ Range(h)[1] \in Int /\ Range(h)[2] \in Int
        /\ Range(h)[1] <= x /\ x + WindowLen <= Range(h)[2]
        /\ Range(h) = Reservation(x, Strategy(x))
    BY <1>2, ReservationCovers DEF Range
  <1>4. kind[x] \in {"none", Strategy(x)}
    BY <1>1 DEF BindRefused
  <1>5. /\ NewEnd(h) \in Nat /\ NewEnd(h) >= x + displaced[h]
        /\ NewEnd(h) >= x + JumpLen
        /\ kind[x] # "none" => NewEnd(h) >= dispEnd[x]
    BY <1>2, <1>3, <1>4, ScaleAssumption DEF NewEnd, Existing, IInv, TypeOK, Addr
  <1>6. \A y \in Sites \ {x} : ~Overlap(<<x, NewEnd(h)>>, <<y, dispEnd[y]>>)
    BY <1>1 DEF BindRefused
  <1>7. \A y \in Sites \ {x} : Overlap(Range(h), Reservation(y, kind[y])) =>
          /\ kind[y] = "word" /\ Strategy(x) = "word" /\ phase[y] # "WRITING"
    BY <1>1 DEF BindRefused, BindContended, Meeting
  <1>8. ~PendingOverlaps(<<IF Range(h)[1] < x THEN Range(h)[1] ELSE x,
                           IF Range(h)[2] > NewEnd(h) THEN Range(h)[2]
                                                      ELSE NewEnd(h)>>)
    BY <1>1 DEF BindRefused
  <1> QED BY <1>2, <1>3, <1>4, <1>5, <1>6, <1>7, <1>8 DEF PendingOverlaps

\* What a binding changes of the registry: its site is there, and covers at
\* least what it did.
LEMMA BindEffect ==
  ASSUME IInv, NEW h \in Handles, Bind(h)
  PROVE  LET x == site[h]
         IN  /\ kind' = [kind EXCEPT ![x] = Strategy(x)]
             /\ kind'[x] = Strategy(x) /\ dispEnd'[x] = NewEnd(h)
             /\ \A y \in Addr : y # x =>
                  /\ kind'[y] = kind[y] /\ dispEnd'[y] = dispEnd[y]
                  /\ original'[y] = original[y] /\ committed'[y] = committed[y]
             /\ kind[x] # "none" => UNCHANGED <<original, committed>>
             /\ kind[x] = "none" => /\ original'[x] = Canonical(h)
                                    /\ committed'[x] = Canonical(h)
             /\ tail'[h] = Canonical(h) /\ hpc'[h] = "bound"
             /\ \A g \in Handles : g # h => hpc'[g] = hpc[g] /\ tail'[g] = tail[g]
             /\ UNCHANGED <<mem, phase, pending, site, displaced, orig, exp, rep,
                            done, cpc>>
             /\ Sites' = Sites \cup {x}
  <1> DEFINE x == site[h]
  <1>1. TypeOK
    BY DEF IInv
  <1>2. /\ x \in Addr /\ kind[x] \in {"none", Strategy(x)}
        /\ Strategy(x) \in {"word", "split"}
    BY BindChecked
  <1>3. kind' = [kind EXCEPT ![x] = Strategy(x)]
    <2>1. CASE Existing(h)
      BY <1>1, <1>2, <2>1 DEF Bind, Existing, TypeOK
    <2>2. CASE ~Existing(h)
      BY <2>2 DEF Bind
    <2> QED BY <2>1, <2>2
  <1>4. kind[x] # "none" => Existing(h)
    BY <1>2 DEF Existing
  <1>5. kind[x] = "none" => ~Existing(h)
    BY <1>2 DEF Existing
  <1>6. Sites' = Sites \cup {x}
    BY <1>1, <1>2, <1>3 DEF Sites, TypeOK
  <1> QED BY <1>1, <1>2, <1>3, <1>4, <1>5, <1>6 DEF Bind, TypeOK

LEMMA BindControl ==
  ASSUME IInv, TypeOK', NEW h \in Handles, Bind(h)
  PROVE  ControlInv'
  <1> USE ScaleAssumption
  <1> DEFINE x == site[h]
  <1>1. ControlInv /\ TypeOK
    BY DEF IInv
  <1>2. /\ x \in JumpSites /\ x \in Addr /\ x \in Int
        /\ Strategy(x) \in {"word", "split"}
        /\ kind[x] \in {"none", Strategy(x)}
        /\ NewEnd(h) \in Nat /\ NewEnd(h) >= x + displaced[h]
        /\ NewEnd(h) >= x + JumpLen
        /\ kind[x] # "none" => NewEnd(h) >= dispEnd[x]
        /\ Range(h)[1] \in Int /\ Range(h)[2] \in Int
        /\ Range(h)[1] <= x /\ x + WindowLen <= Range(h)[2]
        /\ Range(h) = Reservation(x, Strategy(x))
    BY BindChecked
  <1>3. /\ kind'[x] = Strategy(x) /\ dispEnd'[x] = NewEnd(h)
        /\ \A y \in Addr : y # x =>
             kind'[y] = kind[y] /\ dispEnd'[y] = dispEnd[y]
        /\ hpc[h] = "planned" /\ hpc'[h] = "bound"
        /\ \A g \in Handles : g # h => hpc'[g] = hpc[g]
        /\ UNCHANGED <<phase, pending, site, displaced, cpc>>
        /\ Sites' = Sites \cup {x}
    BY BindEffect DEF Bind
  <1>4. ASSUME NEW y \in Sites \ {x}
        PROVE  /\ y \in Addr /\ y \in Int /\ dispEnd[y] \in Int
               /\ Reservation(y, kind[y])[1] \in Int
               /\ Reservation(y, kind[y])[2] \in Int
               /\ ~Overlap(<<x, NewEnd(h)>>, <<y, dispEnd[y]>>)
               /\ ~Overlap(<<y, dispEnd[y]>>, <<x, NewEnd(h)>>)
               /\ Overlap(Range(h), Reservation(y, kind[y])) =>
                    /\ kind[y] = "word" /\ Strategy(x) = "word"
                    /\ phase[y] # "WRITING"
               /\ Overlap(Reservation(y, kind[y]), Range(h)) =>
                    /\ kind[y] = "word" /\ Strategy(x) = "word"
                    /\ phase[y] # "WRITING"
    <2>1. SiteInv(y) /\ y \in Addr
      BY <1>1 DEF ControlInv, Sites
    <2>2. /\ y \in Int /\ dispEnd[y] \in Int
          /\ Reservation(y, kind[y])[1] \in Int
          /\ Reservation(y, kind[y])[2] \in Int
      BY <1>1, <2>1, SitePlace
    <2>3. /\ ~Overlap(<<x, NewEnd(h)>>, <<y, dispEnd[y]>>)
          /\ Overlap(Range(h), Reservation(y, kind[y])) =>
               kind[y] = "word" /\ Strategy(x) = "word" /\ phase[y] # "WRITING"
      BY BindChecked
    <2> QED BY <1>2, <2>1, <2>2, <2>3 DEF Overlap
  <1>5. \A g \in Handles : Writing(g)' <=> Writing(g)
    BY <1>3 DEF Writing
  <1>6. \A g \in Handles : Bound(g)' => Bound(g) \/ g = h
    BY <1>3 DEF Bound
  <1>7. ASSUME NEW y \in Addr PROVE SiteInv(y)'
    <2>1. SiteInv(y)
      BY <1>1 DEF ControlInv
    <2>2. CASE y = x
      BY <1>2, <1>3, <1>5, <2>1, <2>2 DEF SiteInv
    <2>3. CASE y # x
      BY <1>3, <1>5, <2>1, <2>3 DEF SiteInv
    <2> QED BY <2>2, <2>3
  <1>8. ASSUME NEW d \in Clients PROVE ClientInv(d)'
    <2>1. ClientInv(d)
      BY <1>1 DEF ControlInv
    <2>2. \A y \in Sites \ {x} : Span(y)' = Span(y)
      BY <1>3, <1>4 DEF Span
    <2>3. Span(x)' = <<IF Range(h)[1] < x THEN Range(h)[1] ELSE x,
                       IF Range(h)[2] > NewEnd(h) THEN Range(h)[2]
                                                  ELSE NewEnd(h)>>
      BY <1>2, <1>3 DEF Span
    <2>4. d \in pending => ~Overlap(Span(x)', ClientRange(d))
      <3>1. d \in pending =>
              ~Overlap(<<IF Range(h)[1] < x THEN Range(h)[1] ELSE x,
                         IF Range(h)[2] > NewEnd(h) THEN Range(h)[2]
                                                    ELSE NewEnd(h)>>,
                       ClientRange(d))
        BY BindChecked
      <3> QED BY <2>3, <3>1
    <2>5. SiteOf[d] \in Int
      BY SitesAssumption DEF Clients
    <2>6. d \in pending => ~Overlap(ClientRange(d), Span(x)')
      <3>1. Span(x)'[1] \in Int /\ Span(x)'[2] \in Int
        BY <1>2, <2>3
      <3> QED BY <2>4, <2>5, <3>1 DEF Overlap, ClientRange
    <2>7. d \in Rapids /\ cpc[d] = "installed" =>
            kind'[SiteOf[d]] = "rapid" /\ dispEnd'[SiteOf[d]] = SiteOf[d] + JumpLen
      <3>1. SUFFICES ASSUME d \in Rapids, cpc[d] = "installed"
                     PROVE  SiteOf[d] # x
        BY <1>3, <2>1, SitesAssumption DEF ClientInv, Clients, Addr
      <3> QED BY <1>2, <2>1, <3>1 DEF ClientInv
    <2>8. d \in pending' => \A y \in Sites' : ~Overlap(ClientRange(d), Span(y)')
      BY <1>3, <2>1, <2>2, <2>6 DEF ClientInv
    <2> QED BY <1>3, <2>1, <2>7, <2>8 DEF ClientInv, ClientRange
  <1>9. ClientsApart'
    BY <1>1, <1>3 DEF ControlInv, ClientsApart, Claimed, ClientRange
  <1>10. ASSUME NEW g \in Handles PROVE HandleInv(g)'
    <2>1. HandleInv(g) /\ Writing(g)' = Writing(g)
      BY <1>1, <1>3 DEF ControlInv, Writing
    <2>2. CASE g = h
      BY <1>2, <1>3, <2>1, <2>2 DEF HandleInv, Bound
    <2>3. CASE g # h
      <3>1. Bound(g)' = Bound(g)
        BY <1>3, <2>3 DEF Bound
      <3>2. site[g] \in Addr /\ site[g] \in Int /\ displaced[g] \in Int
            /\ dispEnd[x] \in Int
        BY <1>1, <1>2 DEF TypeOK, Addr
      <3>3. Bound(g) => /\ kind'[site[g]] = Strategy(site[g])
                        /\ site[g] + displaced[g] <= dispEnd'[site[g]]
        <4>1. CASE site[g] = x
          BY <1>2, <1>3, <2>1, <3>2, <4>1 DEF HandleInv
        <4>2. CASE site[g] # x
          BY <1>3, <2>1, <3>2, <4>2 DEF HandleInv
        <4> QED BY <4>1, <4>2
      <3> QED BY <1>3, <2>1, <2>3, <3>1, <3>3 DEF HandleInv
    <2> QED BY <2>2, <2>3
  <1>11. SitesApart'
    <2> SUFFICES ASSUME NEW y \in Sites', NEW z \in Sites', y # z
                 PROVE  /\ ~Overlap(<<y, dispEnd'[y]>>, <<z, dispEnd'[z]>>)
                        /\ Overlap(Reservation(y, kind'[y]), Reservation(z, kind'[z]))
                             => kind'[y] = "word" /\ kind'[z] = "word"
      BY DEF SitesApart
    <2>1. CASE y = x
      BY <1>2, <1>3, <1>4, <2>1
    <2>2. CASE z = x
      BY <1>2, <1>3, <1>4, <2>2
    <2>3. CASE y # x /\ z # x
      BY <1>1, <1>3, <1>4, <2>3 DEF ControlInv, SitesApart
    <2> QED BY <2>1, <2>2, <2>3
  <1>12. WritersApart'
    BY <1>1, <1>3, <1>5 DEF ControlInv, WritersApart
  <1>13. phase[x] = "WRITING" => x \in Sites
    <2>1. phase[x] = "WRITING" =>
            \E g \in Handles : Writing(g) /\ site[g] = x
      BY <1>1, <1>2 DEF ControlInv, SiteInv
    <2> QED BY <2>1, HandlePlace DEF Writing, Bound
  <1>14. LocksApart'
    <2> SUFFICES ASSUME NEW y \in Sites', NEW z \in Sites', y # z,
                        kind'[y] # "rapid", kind'[z] # "rapid",
                        phase[y] = "WRITING", phase[z] = "WRITING"
                 PROVE  ~Overlap(<<y, y + WindowLen>>, <<z, z + WindowLen>>)
      BY <1>3 DEF LocksApart
    <2>1. y \in Sites /\ z \in Sites
      BY <1>3, <1>13
    <2>2. kind[y] # "rapid" /\ kind[z] # "rapid"
      BY <1>2, <1>3, <1>4, <2>1
    <2> QED BY <1>1, <2>1, <2>2 DEF ControlInv, LocksApart
  <1> QED BY <1>7, <1>8, <1>9, <1>10, <1>11, <1>12, <1>14 DEF ControlInv

-----------------------------------------------------------------------------
(* What the bytes are.                                                     *)

\* Written bytes stay recorded as such.
LEMMA WrittenKept ==
  ASSUME \A c \in Quiescents :
           /\ cpc[c] \in {"installed", "restored", "retired"}
                => cpc'[c] \in {"installed", "restored", "retired"}
           /\ cpc[c] = "retired" => cpc'[c] = "retired"
  PROVE  /\ NoneWritten' => NoneWritten \/ \E c \in Quiescents :
              cpc[c] \notin {"none", "reserved", "installed", "restored", "retired"}
         /\ \A a : Overwritten(a) => Overwritten(a)'
         /\ GivenBack \subseteq GivenBack'
  <1>1. NoneWritten' => NoneWritten \/ \E c \in Quiescents :
          cpc[c] \notin {"none", "reserved", "installed", "restored", "retired"}
    BY DEF NoneWritten
  <1>2. \A a : Overwritten(a) => Overwritten(a)'
    BY DEF Overwritten, ClientBytes
  <1>3. GivenBack \subseteq GivenBack'
    BY DEF GivenBack, ClientBytes
  <1> QED BY <1>1, <1>2, <1>3

\* A step that writes no code and registers no word site leaves everything
\* that is said of the bytes as it is, but for the handle it changes.
LEMMA QuietStep ==
  ASSUME IInv, TypeOK', NEW h,
         UNCHANGED <<mem, original, committed>>,
         Sites \subseteq Sites',
         \A x \in Addr : kind'[x] = "word" <=> kind[x] = "word",
         \A c \in Quiescents :
           /\ cpc[c] \in {"installed", "restored", "retired"}
                => cpc'[c] \in {"installed", "restored", "retired"}
           /\ cpc[c] = "retired" => cpc'[c] = "retired",
         \A g \in Handles \ {h} :
           UNCHANGED <<hpc[g], site[g], orig[g], tail[g], exp[g], rep[g], done[g]>>,
         h \in Handles => ~(hpc[h] = "finish" /\ done[h] = "ok")
  PROVE  /\ \A x \in Addr : LiveInv(x)'
         /\ \A g \in Handles \ {h} : ImageInv(g)' /\ PlanInv(g)' /\ CleanInv(g)'
         /\ PristineInv'
         /\ NoneWritten' => NoneWritten
         /\ \A a : Owned(a) => Owned(a)'
         /\ \A a : Overwritten(a) => Overwritten(a)'
  <1>1. BytesInv /\ TypeOK
    BY DEF IInv
  <1>2. /\ NoneWritten' => NoneWritten
        /\ \A a : Overwritten(a) => Overwritten(a)'
        /\ GivenBack \subseteq GivenBack'
    BY <1>1, WrittenKept DEF TypeOK, Clients
  <1>3. \A a : Owned(a) => Owned(a)'
    BY DEF Owned, OwnBytes
  <1>4. ASSUME NEW x \in Addr PROVE LiveInv(x)'
    <2>1. LiveInv(x)
      BY <1>1 DEF BytesInv
    <2>2. \A g \in Handles : site[g] = x /\ hpc[g] = "finish" /\ done[g] = "ok"
            => site'[g] = x /\ hpc'[g] = "finish" /\ done'[g] = "ok"
      OBVIOUS
    <2>3. OwnBytes(x)' = OwnBytes(x)
      BY DEF OwnBytes
    <2> QED BY <1>2, <2>1, <2>2, <2>3 DEF LiveInv
  <1>5. ASSUME NEW g \in Handles \ {h}
        PROVE  ImageInv(g)' /\ PlanInv(g)' /\ CleanInv(g)'
    <2>1. ImageInv(g) /\ PlanInv(g) /\ CleanInv(g)
      BY <1>1 DEF BytesInv
    <2>2. ImageInv(g)'
      BY <2>1 DEF ImageInv, Writing, Window
    <2>3. PlanInv(g)'
      BY <1>2, <1>3, <2>1 DEF PlanInv
    <2>4. CleanInv(g)'
      BY <1>2, <1>3, <2>1 DEF CleanInv, Bound
    <2> QED BY <2>2, <2>3, <2>4
  <1>6. PristineInv'
    BY <1>1, <1>2, <1>3 DEF BytesInv, PristineInv, Sites
  <1> QED BY <1>2, <1>3, <1>4, <1>5, <1>6

LEMMA PlanBytes ==
  ASSUME IInv, TypeOK', NEW h \in Handles, NEW x \in JumpSites, Plan(h, x)
  PROVE  BytesInv'
  <1>1. BytesInv /\ TypeOK
    BY DEF IInv
  <1>2. /\ hpc'[h] = "planned" /\ site'[h] = x /\ orig'[h] = Window(mem, x)
        /\ \A g \in Handles : g # h =>
             UNCHANGED <<hpc[g], site[g], orig[g], tail[g], exp[g], rep[g], done[g]>>
        /\ UNCHANGED <<mem, kind, original, committed, cpc>>
        /\ hpc[h] = "unplanned"
    BY <1>1 DEF Plan, TypeOK, registry
  <1>3. /\ \A y \in Addr : LiveInv(y)'
        /\ \A g \in Handles \ {h} : ImageInv(g)' /\ PlanInv(g)' /\ CleanInv(g)'
        /\ PristineInv'
        /\ NoneWritten' => NoneWritten
    BY <1>2, QuietStep DEF Sites
  <1>4. \A i \in Index : x + i \in Addr /\ orig'[h][i] = mem[x + i]
    BY <1>2, SitesAssumption, ScaleAssumption DEF Window, Addr, Index
  <1>5. ImageInv(h)' /\ PlanInv(h)'
    BY <1>2, <1>4 DEF ImageInv, PlanInv, Writing
  <1>6. CleanInv(h)'
    BY <1>2, <1>3, <1>4 DEF CleanInv, PristineInv, Bound
  <1> QED BY <1>3, <1>5, <1>6 DEF BytesInv

LEMMA BindFailsBytes ==
  ASSUME IInv, TypeOK', NEW h \in Handles, BindFails(h)
  PROVE  BytesInv'
  <1>1. BytesInv /\ TypeOK
    BY DEF IInv
  <1>2. /\ hpc[h] = "planned" /\ hpc'[h] = "unplanned"
        /\ \A g \in Handles : g # h => hpc'[g] = hpc[g]
        /\ UNCHANGED <<mem, kind, original, committed, cpc, site, orig, tail, exp,
                       rep, done>>
    BY <1>1 DEF BindFails, TypeOK, registry, plans
  <1>3. /\ \A y \in Addr : LiveInv(y)'
        /\ \A g \in Handles \ {h} : ImageInv(g)' /\ PlanInv(g)' /\ CleanInv(g)'
        /\ PristineInv'
    BY <1>2, QuietStep DEF Sites
  <1>4. ImageInv(h)' /\ PlanInv(h)' /\ CleanInv(h)'
    BY <1>2 DEF ImageInv, PlanInv, CleanInv, Writing, Bound
  <1> QED BY <1>3, <1>4 DEF BytesInv

LEMMA BeginFailsBytes ==
  ASSUME IInv, TypeOK', NEW h \in Handles, NEW o \in {"apply", "revert"},
         BeginFails(h, o)
  PROVE  BytesInv'
  <1>1. BytesInv /\ TypeOK
    BY DEF IInv
  <1>2. /\ hpc[h] = "bound"
        /\ \A g \in Handles : g # h => done'[g] = done[g]
        /\ UNCHANGED <<mem, kind, original, committed, cpc, hpc, site, orig, tail,
                       exp, rep>>
    BY <1>1 DEF BeginFails, TypeOK, registry, plans
  <1>3. /\ \A y \in Addr : LiveInv(y)'
        /\ \A g \in Handles \ {h} : ImageInv(g)' /\ PlanInv(g)' /\ CleanInv(g)'
        /\ PristineInv'
        /\ NoneWritten' => NoneWritten
    BY <1>2, QuietStep DEF Sites
  <1>4. ImageInv(h) /\ PlanInv(h) /\ CleanInv(h)
    BY <1>1 DEF BytesInv
  <1>5. ImageInv(h)' /\ PlanInv(h)' /\ CleanInv(h)'
    BY <1>2, <1>3, <1>4 DEF ImageInv, PlanInv, CleanInv, Writing, Bound
  <1> QED BY <1>3, <1>5 DEF BytesInv

LEMMA CompareBytes ==
  ASSUME IInv, TypeOK', NEW h \in Handles, Compare(h)
  PROVE  BytesInv'
  <1>1. BytesInv /\ TypeOK
    BY DEF IInv
  <1>2. /\ hpc[h] = "compare"
        /\ \/ /\ Window(mem, site[h]) = exp[h]
              /\ hpc'[h] = "store" /\ done' = done
           \/ hpc'[h] = "finish" /\ done'[h] = "mismatch"
        /\ \A g \in Handles : g # h => hpc'[g] = hpc[g] /\ done'[g] = done[g]
        /\ UNCHANGED <<mem, kind, original, committed, cpc, site, orig, tail, exp,
                       rep>>
    BY <1>1 DEF Compare, TypeOK, registry, plans
  <1>3. /\ \A y \in Addr : LiveInv(y)'
        /\ \A g \in Handles \ {h} : ImageInv(g)' /\ PlanInv(g)' /\ CleanInv(g)'
        /\ PristineInv'
        /\ NoneWritten' => NoneWritten
    BY <1>2, QuietStep DEF Sites
  <1>4. ImageInv(h) /\ CleanInv(h)
    BY <1>1 DEF BytesInv
  <1>5. ImageInv(h)'
    BY <1>2, <1>4 DEF ImageInv, Writing, Window
  <1>6. PlanInv(h)' /\ CleanInv(h)'
    BY <1>2, <1>3, <1>4 DEF PlanInv, CleanInv, Bound
  <1> QED BY <1>3, <1>5, <1>6 DEF BytesInv

LEMMA ClientBytesKept ==
  ASSUME IInv, TypeOK', NEW c \in Clients,
         \/ Reserve(c) \/ Cancel(c) \/ RapidCommit(c) \/ QuiescentRelease(c)
  PROVE  BytesInv'
  <1>1. TypeOK /\ ClientInv(c)
    BY DEF IInv, ControlInv
  <1>2. /\ UNCHANGED <<mem, original, committed, hpc, site, orig, tail, exp, rep,
                       done>>
        /\ \/ cpc[c] = "none" /\ cpc' = [cpc EXCEPT ![c] = "reserved"]
           \/ cpc[c] = "reserved" /\ cpc' = [cpc EXCEPT ![c] = "none"]
           \/ c \in Rapids /\ cpc' = [cpc EXCEPT ![c] = "installed"]
           \/ cpc' = [cpc EXCEPT ![c] = "retired"]
        /\ \/ kind' = kind
           \/ /\ c \in Rapids /\ cpc[c] = "reserved"
              /\ kind' = [kind EXCEPT ![SiteOf[c]] = "rapid"]
    BY DEF Reserve, Cancel, RapidCommit, QuiescentRelease, Held, plans
  <1>3. \A d \in Quiescents :
           /\ cpc[d] \in {"installed", "restored", "retired"}
                => cpc'[d] \in {"installed", "restored", "retired"}
           /\ cpc[d] = "retired" => cpc'[d] = "retired"
    BY <1>1, <1>2, ClientsAssumption DEF TypeOK, Clients
  <1>4. c \in Rapids /\ cpc[c] = "reserved" => kind[SiteOf[c]] = "none"
    <2>1. SUFFICES ASSUME c \in Rapids, cpc[c] = "reserved", SiteOf[c] \in Sites
                   PROVE  FALSE
      BY SitesAssumption, ScaleAssumption DEF Sites, Addr, Clients
    <2>2. c \in pending
      BY <1>1, <2>1 DEF ClientInv
    <2>3. SiteOf[c] \in OwnBytes(SiteOf[c]) \cap ClientBytes(c)
      BY SitesAssumption, ScaleAssumption DEF OwnBytes, ClientBytes, Clients
    <2> QED BY <2>1, <2>2, <2>3, ClientDisjoint
  <1>5. /\ Sites \subseteq Sites'
        /\ \A x \in Addr : kind'[x] = "word" <=> kind[x] = "word"
    BY <1>1, <1>2, <1>4 DEF Sites, TypeOK
  <1>6. /\ \A y \in Addr : LiveInv(y)'
        /\ \A g \in Handles \ {c} : ImageInv(g)' /\ PlanInv(g)' /\ CleanInv(g)'
        /\ PristineInv'
    BY <1>2, <1>3, <1>5, QuietStep, ClientsAssumption DEF Clients
  <1> QED BY <1>6, ClientsAssumption DEF BytesInv, Clients

\* A client writes its own range only: no registered jump site's bytes, and
\* no byte of a window under publication.
LEMMA ClientWrites ==
  ASSUME IInv, TypeOK', NEW c \in Clients,
         \/ \E b \in {"orig", c} : RapidToggle(c, b)
         \/ QuiescentWrite(c) \/ QuiescentRetire(c)
  PROVE  /\ \A a \in Addr : mem'[a] # mem[a] => a \in ClientBytes(c)
         /\ \A a \in ClientBytes(c), y \in Sites :
              a \in OwnBytes(y) => kind[y] = "rapid"
         /\ \A a \in ClientBytes(c), y \in Sites :
              kind[y] # "rapid" => a \notin y .. y + WindowLen - 1
         /\ \A a \in Addr : mem'[a] # mem[a] => Owned(a) \/ Overwritten(a)'
  <1> USE ScaleAssumption, SitesAssumption
  <1>1. TypeOK /\ ClientInv(c) /\ SiteOf[c] \in Int
    BY DEF IInv, ControlInv, Clients
  <1>2. \A a \in Addr : mem'[a] # mem[a] => a \in ClientBytes(c)
    BY <1>1 DEF RapidToggle, QuiescentWrite, QuiescentRetire, TypeOK, ClientBytes
  <1>3. CASE c \in Rapids /\ cpc[c] = "installed"
    <2>1. SiteOf[c] \in Sites /\ kind[SiteOf[c]] = "rapid"
      BY <1>1, <1>3 DEF ClientInv, Sites, Addr, Clients
    <2>2. ClientBytes(c) = OwnBytes(SiteOf[c])
      BY DEF ClientBytes, OwnBytes
    <2>3. \A a \in ClientBytes(c) : Owned(a)
      BY <2>1, <2>2 DEF Owned
    <2>4. ASSUME NEW a \in ClientBytes(c), NEW y \in Sites
          PROVE  /\ a \in OwnBytes(y) => kind[y] = "rapid"
                 /\ kind[y] # "rapid" => a \notin y .. y + WindowLen - 1
      <3>1. y # SiteOf[c] => a \notin OwnBytes(y)
        BY <2>1, <2>2, SitesDisjoint
      <3>2. y \in Int
        BY DEF Sites, Addr
      <3>3. ASSUME kind[y] # "rapid", a \in y .. y + WindowLen - 1
            PROVE  FALSE
        <4>1. y # SiteOf[c] /\ a < y + WindowLen /\ y <= a
          BY <2>1, <3>2, <3>3
        <4> QED BY <2>1, <2>2, <3>3, <4>1, SitesDisjoint
      <3> QED BY <2>1, <3>1, <3>3
    <2> QED BY <1>2, <2>3, <2>4
  <1>4. CASE ~(c \in Rapids /\ cpc[c] = "installed")
    <2>1. /\ c \in Quiescents /\ c \in pending
          /\ cpc'[c] \in {"installed", "restored"}
      BY <1>1, <1>4 DEF RapidToggle, QuiescentWrite, QuiescentRetire, Held,
                        ClientInv, TypeOK
    <2>2. \A a \in ClientBytes(c) : Overwritten(a)'
      BY <2>1 DEF Overwritten, ClientBytes
    <2>3. \A a \in ClientBytes(c), y \in Sites :
            /\ a \notin OwnBytes(y)
            /\ kind[y] # "rapid" => a \notin y .. y + WindowLen - 1
      BY <2>1, ClientDisjoint
    <2> QED BY <1>2, <2>2, <2>3
  <1> QED BY <1>3, <1>4

LEMMA WriteBytes ==
  ASSUME IInv, TypeOK', NEW c \in Clients,
         \/ \E b \in {"orig", c} : RapidToggle(c, b)
         \/ QuiescentWrite(c) \/ QuiescentRetire(c)
  PROVE  BytesInv'
  <1> USE ScaleAssumption, SitesAssumption
  <1>1. TypeOK /\ BytesInv /\ ClientInv(c)
    BY DEF IInv, ControlInv
  <1>2. /\ UNCHANGED <<registry, hpc, plans, exp, rep, done>>
        /\ UNCHANGED <<kind, original, committed, site, orig, tail>>
        /\ \/ cpc' = cpc /\ c \in Rapids
           \/ c \in Quiescents /\ cpc' = [cpc EXCEPT ![c] = "installed"]
           \/ c \in Quiescents /\ cpc' = [cpc EXCEPT ![c] = "restored"]
        /\ cpc[c] # "retired"
    BY DEF RapidToggle, QuiescentWrite, QuiescentRetire, Held, registry, plans
  <1>3. /\ \A a \in Addr : mem'[a] # mem[a] => a \in ClientBytes(c)
        /\ \A a \in ClientBytes(c), y \in Sites :
             a \in OwnBytes(y) => kind[y] = "rapid"
        /\ \A a \in ClientBytes(c), y \in Sites :
             kind[y] # "rapid" => a \notin y .. y + WindowLen - 1
        /\ \A a \in Addr : mem'[a] # mem[a] => Owned(a) \/ Overwritten(a)'
    BY ClientWrites
  <1>4. \A d \in Quiescents :
           /\ cpc[d] \in {"installed", "restored", "retired"}
                => cpc'[d] \in {"installed", "restored", "retired"}
           /\ cpc[d] = "retired" => cpc'[d] = "retired"
    BY <1>1, <1>2 DEF TypeOK, Clients
  <1>5. /\ NoneWritten' => NoneWritten
        /\ \A a : Overwritten(a) => Overwritten(a)'
        /\ GivenBack \subseteq GivenBack'
    BY <1>1, <1>4, WrittenKept DEF TypeOK, Clients
  <1>6. Sites' = Sites /\ \A a : Owned(a)' <=> Owned(a)
    BY <1>2 DEF Sites, Owned, OwnBytes
  <1>7. NoneWritten' => \A a : ~Overwritten(a)'
    BY DEF NoneWritten, Overwritten
  <1>8. ASSUME NEW x \in Addr PROVE LiveInv(x)'
    <2>1. LiveInv(x)
      BY <1>1 DEF BytesInv
    <2>2. kind[x] = "word" => \A i \in Own : mem'[x + i] = mem[x + i]
      <3>1. SUFFICES ASSUME kind[x] = "word", NEW i \in Own
                     PROVE  mem'[x + i] = mem[x + i]
        OBVIOUS
      <3>2. x \in Sites /\ x \in JumpSites
        BY <3>1 DEF Sites, IInv, ControlInv, SiteInv
      <3>3. x + i \in OwnBytes(x) /\ x + i \in Addr
        BY <3>2 DEF OwnBytes, Own, Addr
      <3> QED BY <1>3, <3>1, <3>2, <3>3
    <2>3. OwnBytes(x)' = OwnBytes(x)
      BY DEF OwnBytes
    <2> QED BY <1>2, <1>5, <2>1, <2>2, <2>3 DEF LiveInv
  <1>9. ASSUME NEW g \in Handles PROVE ImageInv(g)' /\ PlanInv(g)' /\ CleanInv(g)'
    <2>1. ImageInv(g) /\ PlanInv(g) /\ CleanInv(g)
      BY <1>1 DEF BytesInv
    <2>2. Own \subseteq Index
      BY DEF Own, Index
    <2>3. Writing(g) => \A i \in Index : mem'[site[g] + i] = mem[site[g] + i]
      <3>1. SUFFICES ASSUME Writing(g), NEW i \in Index
                     PROVE  mem'[site[g] + i] = mem[site[g] + i]
        OBVIOUS
      <3>2. /\ site[g] \in Sites /\ kind[site[g]] # "rapid" /\ site[g] \in Int
            /\ site[g] + i \in Addr
        BY <3>1, HandlePlace DEF Writing, Bound
      <3>3. site[g] + i \in site[g] .. site[g] + WindowLen - 1
        BY <3>2 DEF Index
      <3> QED BY <1>3, <3>2, <3>3
    <2>4. Window(mem, site[g])' = [i \in Index |-> mem'[site[g] + i]]
      BY <1>2 DEF Window
    <2>5. ImageInv(g)'
      BY <1>2, <2>1, <2>2, <2>3, <2>4 DEF ImageInv, Writing, Window
    <2>6. PlanInv(g)'
      <3>1. SUFFICES ASSUME hpc[g] = "planned", NEW i \in Index
                     PROVE  \/ orig[g][i] = mem'[site[g] + i]
                            \/ Owned(site[g] + i)
                            \/ Overwritten(site[g] + i)'
        BY <1>2, <1>6 DEF PlanInv
      <3>2. site[g] + i \in Addr
        BY <3>1, HandlePlace
      <3>3. CASE mem'[site[g] + i] = mem[site[g] + i]
        <4>1. \/ orig[g][i] = mem[site[g] + i] \/ Owned(site[g] + i)
              \/ Overwritten(site[g] + i)
          BY <2>1, <3>1 DEF PlanInv
        <4>2. Overwritten(site[g] + i) => Overwritten(site[g] + i)'
          BY <1>2, <1>5
        <4> QED BY <3>3, <4>1, <4>2
      <3>4. CASE mem'[site[g] + i] # mem[site[g] + i]
        BY <1>2, <1>3, <3>2, <3>4
      <3> QED BY <3>3, <3>4
    <2>7. CleanInv(g)'
      BY <1>2, <1>5, <1>6, <2>1, <2>3 DEF CleanInv, Bound, Writing
    <2> QED BY <2>5, <2>6, <2>7
  <1>10. PristineInv'
    BY <1>1, <1>2, <1>3, <1>5, <1>6, <1>7 DEF BytesInv, PristineInv
  <1> QED BY <1>8, <1>9, <1>10 DEF BytesInv

\* The whole-window store of a publication changes its own bytes only.
LEMMA StoreEffect ==
  ASSUME IInv, NEW h \in Handles, Store(h)
  PROVE  /\ \A a \in Addr : mem'[a] # mem[a] => a \in OwnBytes(site[h])
         /\ \A i \in Own : mem'[site[h] + i] = rep[h][i]
  <1> USE ScaleAssumption
  <1> DEFINE x == site[h]
  <1>1. /\ hpc[h] = "store" /\ mem' = Stored(mem, x, rep[h])
        /\ ImageInv(h)
    BY DEF Store, IInv, BytesInv
  <1>2. x \in Int /\ \A i \in Index : x + i \in Addr
    BY <1>1, HandlePlace
  <1>3. \A a \in Addr : mem'[a] = IF a \in x .. x + WindowLen - 1
                                  THEN rep[h][a - x] ELSE mem[a]
    BY <1>1 DEF Stored
  <1>4. \A i \in Index : mem[x + i] = exp[h][i]
    BY <1>1 DEF ImageInv, Window
  <1>5. \A i \in Index \ Own : rep[h][i] = exp[h][i]
    BY <1>1 DEF ImageInv, Writing
  <1>6. ASSUME NEW a \in Addr, a \notin OwnBytes(x) PROVE mem'[a] = mem[a]
    <2>1. CASE a \in x .. x + WindowLen - 1
      <3>1. a - x \in Index \ Own /\ x + (a - x) = a
        BY <1>2, <1>6, <2>1 DEF Index, Own, OwnBytes, Addr
      <3> QED BY <1>3, <1>4, <1>5, <2>1, <3>1
    <2> QED BY <1>3, <2>1
  <1>7. ASSUME NEW i \in Own PROVE mem'[x + i] = rep[h][i]
    <2>1. /\ i \in Index /\ x + i \in x .. x + WindowLen - 1 /\ (x + i) - x = i
      BY <1>2 DEF Index, Own
    <2> QED BY <1>2, <1>3, <2>1
  <1> QED BY <1>6, <1>7

LEMMA StoreBytes ==
  ASSUME IInv, TypeOK', NEW h \in Handles, Store(h)
  PROVE  BytesInv'
  <1> USE ScaleAssumption, SitesAssumption
  <1> DEFINE x == site[h]
  <1>1. TypeOK /\ BytesInv /\ ControlInv
    BY DEF IInv
  <1>2. /\ hpc[h] = "store" /\ hpc'[h] = "finish" /\ done'[h] = "ok"
        /\ \A g \in Handles : g # h => hpc'[g] = hpc[g] /\ done'[g] = done[g]
        /\ UNCHANGED <<kind, phase, original, committed, cpc, site, orig, tail, exp,
                       rep>>
    BY <1>1 DEF Store, TypeOK, registry, plans
  <1>3. /\ \A a \in Addr : mem'[a] # mem[a] => a \in OwnBytes(x)
        /\ \A i \in Own : mem'[x + i] = rep[h][i]
    BY StoreEffect
  <1>4. x \in Sites /\ x \in Int /\ kind[x] \in {"word", "split"}
    BY <1>2, HandlePlace DEF Bound
  <1>5. Sites' = Sites /\ \A a : Owned(a)' <=> Owned(a)
    BY <1>2 DEF Sites, Owned, OwnBytes
  <1>6. /\ NoneWritten' <=> NoneWritten
        /\ \A a : Overwritten(a)' <=> Overwritten(a)
        /\ GivenBack' = GivenBack
    BY <1>2 DEF NoneWritten, Overwritten, GivenBack, ClientBytes
  <1>7. \A a \in Addr : mem'[a] # mem[a] => Owned(a)
    BY <1>3, <1>4 DEF Owned
  <1>8. ASSUME NEW y \in Addr PROVE LiveInv(y)'
    <2>1. LiveInv(y) /\ SiteInv(y)
      BY <1>1 DEF BytesInv, ControlInv
    <2>2. SUFFICES ASSUME y # x, kind[y] = "word", NEW i \in Own
                   PROVE  mem'[y + i] = mem[y + i]
      BY <1>2, <1>6, <2>1 DEF LiveInv, OwnBytes
    <2>3. y \in Sites /\ y + i \in OwnBytes(y) /\ y + i \in Addr
      BY <2>1, <2>2 DEF Sites, OwnBytes, Own, Addr, SiteInv
    <2> QED BY <1>3, <1>4, <2>2, <2>3, SitesDisjoint
  <1>9. ASSUME NEW g \in Handles PROVE ImageInv(g)' /\ PlanInv(g)' /\ CleanInv(g)'
    <2>1. ImageInv(g) /\ PlanInv(g) /\ CleanInv(g)
      BY <1>1 DEF BytesInv
    <2>2. Own \subseteq Index
      BY DEF Own, Index
    <2>3. g # h /\ Writing(g) =>
            \A i \in Index : mem'[site[g] + i] = mem[site[g] + i]
      <3>1. SUFFICES ASSUME g # h, Writing(g), NEW i \in Index,
                            site[g] + i \in OwnBytes(x)
                     PROVE  FALSE
        BY <1>3, HandlePlace DEF Writing
      <3>2. /\ site[g] \in Sites /\ kind[site[g]] \in {"word", "split"}
            /\ site[g] \in Int
        BY <3>1, HandlePlace DEF Writing, Bound
      <3>3. site[g] # x /\ phase[site[g]] = "WRITING" /\ phase[x] = "WRITING"
        BY <1>1, <1>2, <3>1 DEF ControlInv, WritersApart, HandleInv, Writing
      <3>4. ~Overlap(<<x, x + WindowLen>>, <<site[g], site[g] + WindowLen>>)
        BY <1>1, <1>4, <3>2, <3>3 DEF ControlInv, LocksApart
      <3> QED BY <1>4, <3>1, <3>2, <3>4 DEF Overlap, OwnBytes, Index
    <2>4. ImageInv(g)'
      <3>1. CASE g = h
        BY <1>2, <1>3, <2>1, <3>1 DEF ImageInv, Writing
      <3>2. CASE g # h
        BY <1>2, <2>1, <2>2, <2>3, <3>2 DEF ImageInv, Writing, Window
      <3> QED BY <3>1, <3>2
    <2>5. PlanInv(g)'
      <3>1. SUFFICES ASSUME hpc[g] = "planned", NEW i \in Index
                     PROVE  \/ orig[g][i] = mem'[site[g] + i]
                            \/ Owned(site[g] + i)
                            \/ Overwritten(site[g] + i)
        BY <1>2, <1>5, <1>6 DEF PlanInv
      <3>2. site[g] + i \in Addr
        BY <3>1, HandlePlace
      <3> QED BY <1>7, <2>1, <3>1, <3>2 DEF PlanInv
    <2>6. CleanInv(g)'
      BY <1>2, <1>5, <1>6, <2>1, <2>3 DEF CleanInv, Bound, Writing
    <2> QED BY <2>4, <2>5, <2>6
  <1>10. PristineInv'
    BY <1>1, <1>2, <1>5, <1>6, <1>7 DEF BytesInv, PristineInv
  <1> QED BY <1>8, <1>9, <1>10 DEF BytesInv

LEMMA RecordBytes ==
  ASSUME IInv, TypeOK', NEW h \in Handles, Record(h)
  PROVE  BytesInv'
  <1> DEFINE x == site[h]
  <1>1. TypeOK /\ BytesInv /\ ControlInv
    BY DEF IInv
  <1>2. /\ hpc[h] = "finish" /\ hpc'[h] = "release"
        /\ \A g \in Handles : g # h => hpc'[g] = hpc[g]
        /\ committed' = IF done[h] = "ok" /\ kind[x] = "word"
                        THEN [committed EXCEPT ![x] = rep[h]] ELSE committed
        /\ UNCHANGED <<mem, kind, original, cpc, site, orig, tail, exp, rep, done>>
    BY <1>1 DEF Record, TypeOK, plans
  <1>3. x \in Addr
    BY <1>2, HandlePlace
  <1>4. Sites' = Sites /\ \A a : Owned(a)' <=> Owned(a)
    BY <1>2 DEF Sites, Owned, OwnBytes
  <1>5. /\ NoneWritten' <=> NoneWritten
        /\ \A a : Overwritten(a)' <=> Overwritten(a)
        /\ GivenBack' = GivenBack
    BY <1>2 DEF NoneWritten, Overwritten, GivenBack, ClientBytes
  <1>6. ASSUME NEW y \in Addr PROVE LiveInv(y)'
    <2>1. LiveInv(y) /\ OwnBytes(y)' = OwnBytes(y)
      BY <1>1 DEF BytesInv, OwnBytes
    <2>2. CASE y = x /\ done[h] = "ok"
      <3>1. kind[x] = "word" => committed'[x] = rep[h]
        BY <1>1, <1>2, <1>3, <2>2 DEF TypeOK
      <3>2. \A i \in Own : mem[x + i] = rep[h][i]
        BY <1>1, <1>2, <2>2 DEF BytesInv, ImageInv
      <3> QED BY <1>2, <2>2, <3>1, <3>2 DEF LiveInv
    <2>3. CASE y = x /\ done[h] # "ok"
      <3>1. \A g \in Handles : ~(site[g] = x /\ hpc[g] = "finish" /\ done[g] = "ok")
        BY <1>1, <1>2, <2>3 DEF ControlInv, WritersApart, Writing
      <3> QED BY <1>2, <1>5, <2>1, <2>3, <3>1 DEF LiveInv
    <2>4. CASE y # x
      <3>1. committed'[y] = committed[y]
        BY <1>1, <1>2, <2>4 DEF TypeOK
      <3>2. (\A g \in Handles :
                ~(site'[g] = y /\ hpc'[g] = "finish" /\ done'[g] = "ok"))
            => \A g \in Handles : ~(site[g] = y /\ hpc[g] = "finish" /\ done[g] = "ok")
        BY <1>2, <2>4
      <3> QED BY <1>2, <1>5, <2>1, <3>1, <3>2 DEF LiveInv
    <2> QED BY <2>2, <2>3, <2>4
  <1>7. ASSUME NEW g \in Handles PROVE ImageInv(g)' /\ PlanInv(g)' /\ CleanInv(g)'
    <2>1. ImageInv(g) /\ PlanInv(g) /\ CleanInv(g)
      BY <1>1 DEF BytesInv
    <2>2. /\ hpc'[g] = hpc[g] \/ (hpc[g] = "finish" /\ hpc'[g] = "release")
          /\ Bound(g)' <=> Bound(g)
      BY <1>2 DEF Bound
    <2>3. ImageInv(g)'
      BY <1>2, <2>1, <2>2 DEF ImageInv, Writing, Window
    <2>4. PlanInv(g)'
      BY <1>2, <1>4, <1>5, <2>1, <2>2 DEF PlanInv
    <2>5. CleanInv(g)'
      BY <1>2, <1>4, <1>5, <2>1, <2>2 DEF CleanInv
    <2> QED BY <2>3, <2>4, <2>5
  <1>8. PristineInv'
    BY <1>1, <1>2, <1>4, <1>5 DEF BytesInv, PristineInv
  <1> QED BY <1>6, <1>7, <1>8 DEF BytesInv

LEMMA ReleaseBytes ==
  ASSUME IInv, TypeOK', NEW h \in Handles, Release(h)
  PROVE  BytesInv'
  <1>1. BytesInv /\ TypeOK
    BY DEF IInv
  <1>2. /\ hpc[h] = "release" /\ hpc'[h] = "bound"
        /\ \A g \in Handles : g # h => hpc'[g] = hpc[g]
        /\ UNCHANGED <<mem, kind, original, committed, cpc, site, orig, tail, exp,
                       rep, done>>
    BY <1>1 DEF Release, TypeOK, plans
  <1>3. /\ \A y \in Addr : LiveInv(y)'
        /\ \A g \in Handles \ {h} : ImageInv(g)' /\ PlanInv(g)' /\ CleanInv(g)'
        /\ PristineInv'
        /\ NoneWritten' => NoneWritten
    BY <1>2, QuietStep DEF Sites
  <1>4. CleanInv(h)
    BY <1>1 DEF BytesInv
  <1>5. ImageInv(h)' /\ PlanInv(h)' /\ CleanInv(h)'
    BY <1>2, <1>3, <1>4 DEF ImageInv, PlanInv, CleanInv, Writing, Bound
  <1> QED BY <1>3, <1>5 DEF BytesInv

\* In the window of a word site, what begin_jump carries over is the committed
\* byte of the site that owns it, and only bytes behind the jump are owned by
\* others.
LEMMA ComposedBytes ==
  ASSUME IInv, NEW x \in Sites, kind[x] = "word", NEW img, NEW i \in Index
  PROVE  \/ \E y \in Upper(x) : /\ x + i \in OwnBytes(y) /\ y # x /\ i \notin Own
                                /\ x + i - y \in Own
                                /\ Composed(x, img)[i] = committed[y][x + i - y]
         \/ /\ Composed(x, img)[i] = img[i]
            /\ \A y \in Upper(x) : x + i \notin OwnBytes(y)
  <1> USE ScaleAssumption
  <1> DEFINE over == {y \in Upper(x) : y <= x + i /\ x + i < y + JumpLen}
  <1> DEFINE y == CHOOSE y \in over : TRUE
  <1>1. Composed(x, img)[i] = IF over # {} THEN committed[y][x + i - y]
                                           ELSE img[i]
    BY DEF Composed
  <1>2. over # {} => y \in over
    OBVIOUS
  <1>3. x \in Int /\ i \in Int /\ \A z \in Upper(x) : z \in Sites /\ z \in Int /\ x < z
    BY DEF Sites, Addr, Index, Upper
  <1> HIDE DEF y
  <1>4. CASE over # {}
    <2>1. y \in Upper(x) /\ y <= x + i /\ x + i < y + JumpLen
      BY <1>2, <1>4
    <2>2. y \in Sites /\ y \in Int /\ x < y
      BY <1>3, <2>1
    <2>3. x + JumpLen <= y
      BY <1>3, <2>2, SitesDisjoint
    <2>4. x + i \in OwnBytes(y) /\ i \notin Own /\ x + i - y \in Own
      BY <1>3, <2>1, <2>2, <2>3 DEF OwnBytes, Own
    <2> QED BY <1>1, <1>4, <2>1, <2>2, <2>4
  <1>5. CASE over = {}
    <2>1. \A z \in Upper(x) : x + i \notin OwnBytes(z)
      BY <1>3, <1>5 DEF OwnBytes
    <2> QED BY <1>1, <1>5, <2>1
  <1> QED BY <1>4, <1>5

\* An owned byte in the tail of a jump site's window belongs to a word site
\* further up.
LEMMA TailOwner ==
  ASSUME IInv, NEW x \in Sites, kind[x] \in {"word", "split"},
         NEW i \in Index \ Own, Owned(x + i)
  PROVE  kind[x] = "word" /\ \E y \in Upper(x) : x + i \in OwnBytes(y)
  <1> USE ScaleAssumption
  <1>1. PICK z \in Sites : x + i \in OwnBytes(z)
    BY DEF Owned
  <1>2. x \in Int /\ z \in Int /\ i \in Int /\ JumpLen <= i /\ i < WindowLen
    BY DEF Sites, Addr, Index, Own
  <1>3. z # x
    BY <1>1, <1>2 DEF OwnBytes
  <1>4. x <= x + i /\ x + i < x + WindowLen
    BY <1>2
  <1>5. kind[z] = "word" /\ kind[x] = "word" /\ x < z
    BY <1>1, <1>3, <1>4, SitesDisjoint
  <1>6. z < x + WindowLen
    BY <1>1, <1>2, <1>4 DEF OwnBytes
  <1> QED BY <1>1, <1>5, <1>6 DEF Upper

\* Until an installation has written, what a publication expects of the tail
\* is what is there.
LEMMA BeginExpects ==
  ASSUME IInv, NEW h \in Handles, NEW o \in {"apply", "revert"}, Begin(h, o),
         NoneWritten, NEW i \in Index \ Own
  PROVE  mem[site[h] + i] = exp'[h][i]
  <1> USE ScaleAssumption
  <1> DEFINE x == site[h]
  <1> DEFINE img == From(h, o)
  <1>1. TypeOK /\ BytesInv /\ ControlInv
    BY DEF IInv
  <1>2. /\ hpc[h] = "bound" /\ Free(x)
        /\ exp'[h] = IF kind[x] = "word" THEN Composed(x, img) ELSE img
    BY <1>1 DEF Begin, TypeOK
  <1>3. x \in Sites /\ kind[x] \in {"word", "split"} /\ x + i \in Addr
    BY <1>2, HandlePlace DEF Bound
  <1>4. img[i] = "orig"
    BY <1>1, <1>2 DEF From, Image, WithTail, BytesInv, CleanInv, Bound
  <1>5. (kind[x] = "word" => \A y \in Upper(x) : x + i \notin OwnBytes(y))
          => mem[x + i] = "orig"
    BY <1>1, <1>3, TailOwner DEF BytesInv, PristineInv
  <1>6. CASE kind[x] = "split"
    BY <1>2, <1>4, <1>5, <1>6
  <1>7. CASE kind[x] = "word"
    <2>1. CASE Composed(x, img)[i] = img[i]
               /\ \A y \in Upper(x) : x + i \notin OwnBytes(y)
      BY <1>2, <1>4, <1>5, <1>7, <2>1
    <2>2. ASSUME NEW y \in Upper(x), x + i \in OwnBytes(y), y # x,
                 x + i - y \in Own, Composed(x, img)[i] = committed[y][x + i - y]
          PROVE  mem[x + i] = exp'[h][i]
      <3>1. y \in Sites /\ kind[y] = "word" /\ y \in Addr /\ y \in Int /\ x \in Int
            /\ x < y /\ y < x + WindowLen
        BY <1>3, <2>2 DEF Upper, Sites, Addr
      <3>2. y \in Shared(x)
        BY <1>7, <3>1 DEF Shared, Overlap, Reservation
      <3>3. phase[y] = "IDLE"
        BY <1>2, <1>7, <3>2 DEF Free
      <3>4. \A g \in Handles : ~(site[g] = y /\ hpc[g] = "finish" /\ done[g] = "ok")
        BY <1>1, <3>3 DEF ControlInv, HandleInv, Writing
      <3>5. OwnBytes(y) \cap GivenBack = {}
        BY DEF NoneWritten, GivenBack
      <3>6. \A j \in Own : mem[y + j] = committed[y][j]
        BY <1>1, <3>1, <3>4, <3>5 DEF BytesInv, LiveInv
      <3>7. y + (x + i - y) = x + i
        BY <3>1 DEF Index
      <3> QED BY <1>2, <1>7, <2>2, <3>6, <3>7
    <2> QED BY <1>3, <1>7, <2>1, <2>2, ComposedBytes
  <1> QED BY <1>3, <1>6, <1>7

LEMMA BeginBytes ==
  ASSUME IInv, TypeOK', NEW h \in Handles, NEW o \in {"apply", "revert"},
         Begin(h, o)
  PROVE  BytesInv'
  <1> USE ScaleAssumption
  <1> DEFINE x == site[h]
  <1>1. BytesInv /\ TypeOK
    BY DEF IInv
  <1>2. /\ hpc[h] = "bound" /\ hpc'[h] = "compare" /\ done'[h] = "none"
        /\ \A g \in Handles : g # h =>
             UNCHANGED <<hpc[g], exp[g], rep[g], done[g]>>
        /\ UNCHANGED <<mem, kind, original, committed, cpc, site, orig, tail>>
    BY <1>1 DEF Begin, TypeOK, plans
  <1>3. \/ /\ kind[x] = "word" /\ exp'[h] = Composed(x, From(h, o))
           /\ rep'[h] = Composed(x, To(h, o))
        \/ exp'[h] = From(h, o) /\ rep'[h] = To(h, o)
    BY <1>1 DEF Begin, TypeOK
  <1>4. /\ \A y \in Addr : LiveInv(y)'
        /\ \A g \in Handles \ {h} : ImageInv(g)' /\ PlanInv(g)' /\ CleanInv(g)'
        /\ PristineInv'
        /\ NoneWritten' => NoneWritten
    BY <1>2, QuietStep DEF Sites
  <1>5. \A i \in Index \ Own : From(h, o)[i] = To(h, o)[i]
    BY DEF From, To, Image, WithTail
  <1>6. \A i \in Index \ Own : exp'[h][i] = rep'[h][i]
    <2>1. \A i \in Index \ Own :
            Composed(x, From(h, o))[i] = Composed(x, To(h, o))[i]
      BY <1>5 DEF Composed
    <2> QED BY <1>3, <1>5, <2>1
  <1>7. ImageInv(h)' /\ PlanInv(h)'
    BY <1>2, <1>6 DEF ImageInv, PlanInv, Writing
  <1>8. CleanInv(h)'
    <2>1. CleanInv(h)
      BY <1>1 DEF BytesInv
    <2>2. NoneWritten' => \A i \in Index \ Own : mem[x + i] = exp'[h][i]
      BY <1>4, BeginExpects
    <2> QED BY <1>2, <1>4, <2>1, <2>2 DEF CleanInv, Bound
  <1> QED BY <1>4, <1>7, <1>8 DEF BytesInv

\* A byte in the window of a site to be registered that another site owns is
\* behind the jump and belongs to a word site further up.
LEMMA BindOwner ==
  ASSUME IInv, NEW h \in Handles, Bind(h), NEW i \in Index,
         NEW z \in Sites, z # site[h], site[h] + i \in OwnBytes(z)
  PROVE  /\ i \notin Own /\ Strategy(site[h]) = "word"
         /\ z \in Upper(site[h]) /\ z <= site[h] + i
  <1> USE ScaleAssumption
  <1> DEFINE x == site[h]
  <1>1. /\ x \in Int /\ NewEnd(h) \in Nat /\ NewEnd(h) >= x + JumpLen
        /\ Range(h)[1] \in Int /\ Range(h)[2] \in Int
        /\ Range(h)[1] <= x /\ x + WindowLen <= Range(h)[2]
        /\ ~Overlap(<<x, NewEnd(h)>>, <<z, dispEnd[z]>>)
        /\ Overlap(Range(h), Reservation(z, kind[z])) =>
             kind[z] = "word" /\ Strategy(x) = "word"
    BY BindChecked
  <1>2. /\ z \in Int /\ dispEnd[z] \in Int /\ dispEnd[z] >= z + JumpLen
        /\ Reservation(z, kind[z])[1] \in Int /\ Reservation(z, kind[z])[2] \in Int
        /\ Reservation(z, kind[z])[1] <= z
        /\ z + JumpLen <= Reservation(z, kind[z])[2]
    BY SitePlace DEF IInv, ControlInv, Sites
  <1>3. i \in Int /\ 0 <= i /\ i < WindowLen /\ z <= x + i /\ x + i < z + JumpLen
    BY <1>1, <1>2 DEF Index, OwnBytes
  <1>4. x < z /\ NewEnd(h) <= z
    BY <1>1, <1>2, <1>3 DEF Overlap
  <1>5. i \notin Own
    BY <1>1, <1>2, <1>3, <1>4 DEF Own
  <1>6. Overlap(Range(h), Reservation(z, kind[z]))
    BY <1>1, <1>2, <1>3, <1>4 DEF Overlap
  <1>7. z \in Upper(x)
    BY <1>1, <1>2, <1>3, <1>4, <1>6 DEF Upper
  <1> QED BY <1>1, <1>3, <1>5, <1>6, <1>7

\* The canonical bytes: a byte behind the jump that a word site further up
\* owns is the one it had originally, all others are the plan's.
LEMMA CanonicalBytes ==
  ASSUME IInv, NEW h \in Handles, Bind(h), NEW i \in Index
  PROVE  \/ /\ i \notin Own
            /\ \E y \in Sites : /\ kind[y] = "word" /\ site[h] + i - y \in Own
                                /\ Canonical(h)[i] = original[y][site[h] + i - y]
         \/ /\ Canonical(h)[i] = orig[h][i]
            /\ \A z \in Sites : z # site[h] => site[h] + i \notin OwnBytes(z)
  <1> USE ScaleAssumption
  <1> DEFINE x == site[h]
  <1> DEFINE above == {y \in Upper(x) : y <= x + i}
  <1> DEFINE y == CHOOSE y \in above : TRUE
  <1>1. Canonical(h)[i] = IF Strategy(x) = "word" /\ above # {}
                          THEN original[y][x + i - y] ELSE orig[h][i]
    BY DEF Canonical
  <1>2. above # {} => y \in above
    OBVIOUS
  <1> HIDE DEF y
  <1>3. CASE Strategy(x) = "word" /\ above # {}
    <2>1. y \in Upper(x) /\ y <= x + i
      BY <1>2, <1>3
    <2> HIDE DEF above
    <2>2. x \in Int /\ NewEnd(h) \in Nat /\ NewEnd(h) >= x + JumpLen
      BY BindChecked
    <2>3. /\ y \in Sites /\ y \in Int /\ x < y /\ kind[y] = "word"
          /\ y < x + WindowLen
      BY <2>1 DEF Upper, Sites, Addr
    <2>4. ~Overlap(<<x, NewEnd(h)>>, <<y, dispEnd[y]>>)
      <3>1. y \in Sites \ {x}
        BY <2>2, <2>3
      <3> QED BY <3>1, BindChecked
    <2>5. dispEnd[y] \in Int /\ dispEnd[y] >= y + JumpLen
      BY <2>3, SitePlace DEF IInv, ControlInv, Sites
    <2>6. x + JumpLen <= y
      BY <2>2, <2>3, <2>4, <2>5 DEF Overlap
    <2>7. i \notin Own /\ x + i - y \in Own
      BY <2>2, <2>1, <2>3, <2>6 DEF Own, Index
    <2> QED BY <1>1, <1>3, <2>3, <2>7
  <1>4. CASE ~(Strategy(x) = "word" /\ above # {})
    <2>1. \A z \in Sites : z # x => x + i \notin OwnBytes(z)
      BY <1>4, BindOwner
    <2> QED BY <1>1, <1>4, <2>1
  <1> QED BY <1>3, <1>4

\* No client holds a byte of the jump of a site that is being registered.
LEMMA BindFree ==
  ASSUME IInv, NEW h \in Handles, Bind(h), NEW i \in Own, NEW c \in pending
  PROVE  site[h] + i \notin ClientBytes(c)
  <1> USE ScaleAssumption, SitesAssumption
  <1> DEFINE x == site[h]
  <1> DEFINE a == IF Range(h)[1] < x THEN Range(h)[1] ELSE x
  <1> DEFINE b == IF Range(h)[2] > NewEnd(h) THEN Range(h)[2] ELSE NewEnd(h)
  <1>1. /\ x \in Int /\ NewEnd(h) \in Nat /\ NewEnd(h) >= x + JumpLen
        /\ Range(h)[1] \in Int /\ Range(h)[2] \in Int
        /\ ~Overlap(<<a, b>>, ClientRange(c))
    BY BindChecked
  <1>2. SiteOf[c] \in Int
    BY DEF IInv, TypeOK, Clients
  <1>3. a \in Int /\ b \in Int /\ a <= x /\ x + JumpLen <= b
    BY <1>1
  <1> HIDE DEF a, b
  <1> QED BY <1>1, <1>2, <1>3 DEF Overlap, ClientRange, ClientBytes, Own

LEMMA BindBytes ==
  ASSUME IInv, TypeOK', NEW h \in Handles, Bind(h)
  PROVE  BytesInv'
  <1> USE ScaleAssumption
  <1> DEFINE x == site[h]
  <1>1. TypeOK /\ BytesInv /\ ControlInv
    BY DEF IInv
  <1>2. /\ x \in Addr /\ x \in Int /\ Strategy(x) \in {"word", "split"}
        /\ kind[x] \in {"none", Strategy(x)}
    BY BindChecked
  <1>3. /\ kind'[x] = Strategy(x)
        /\ \A y \in Addr : y # x =>
             /\ kind'[y] = kind[y]
             /\ original'[y] = original[y] /\ committed'[y] = committed[y]
        /\ kind[x] # "none" => UNCHANGED <<original, committed>>
        /\ kind[x] = "none" => /\ original'[x] = Canonical(h)
                               /\ committed'[x] = Canonical(h)
        /\ tail'[h] = Canonical(h) /\ hpc'[h] = "bound"
        /\ \A g \in Handles : g # h => hpc'[g] = hpc[g] /\ tail'[g] = tail[g]
        /\ UNCHANGED <<mem, site, orig, exp, rep, done, cpc>>
        /\ Sites' = Sites \cup {x}
    BY BindEffect
  <1>4. hpc[h] = "planned"
    BY DEF Bind
  <1>5. /\ NoneWritten' <=> NoneWritten
        /\ \A a : Overwritten(a)' <=> Overwritten(a)
        /\ GivenBack' = GivenBack
    BY <1>3 DEF NoneWritten, Overwritten, GivenBack, ClientBytes
  <1>6. \A a : Owned(a) => Owned(a)'
    BY <1>3 DEF Owned, OwnBytes
  <1>7. ImageInv(h) /\ PlanInv(h) /\ CleanInv(h) /\ PristineInv
    BY <1>1 DEF BytesInv
  <1>8. ASSUME NEW i \in Own, Owned(x + i), kind[x] = "none" PROVE FALSE
    <2>1. PICK z \in Sites : x + i \in OwnBytes(z)
      BY <1>8 DEF Owned
    <2>2. i \in Index /\ z # x
      BY <1>8 DEF Own, Index, Sites
    <2> QED BY <2>1, <2>2, BindOwner
  <1>9. ASSUME NEW i \in Own, kind[x] = "none"
        PROVE  Canonical(h)[i] = orig[h][i]
    <2>1. i \in Index
      BY DEF Own, Index
    <2> QED BY <2>1, CanonicalBytes
  <1>10. ASSUME NEW y \in Addr PROVE LiveInv(y)'
    <2>1. LiveInv(y) /\ OwnBytes(y)' = OwnBytes(y)
      BY <1>1 DEF BytesInv, OwnBytes
    <2>2. (\A g \in Handles :
              ~(site'[g] = y /\ hpc'[g] = "finish" /\ done'[g] = "ok"))
          => \A g \in Handles : ~(site[g] = y /\ hpc[g] = "finish" /\ done[g] = "ok")
      BY <1>3, <1>4
    <2>3. CASE y # x \/ kind[x] # "none"
      BY <1>2, <1>3, <1>5, <2>1, <2>2, <2>3 DEF LiveInv
    <2>4. CASE y = x /\ kind[x] = "none"
      <3>1. SUFFICES ASSUME OwnBytes(x) \cap GivenBack = {}, NEW i \in Own
                     PROVE  mem[x + i] = orig[h][i]
        BY <1>3, <1>5, <1>9, <2>1, <2>4 DEF LiveInv
      <3>2. i \in Index /\ x + i \in OwnBytes(x)
        BY <1>2 DEF Own, Index, OwnBytes
      <3>3. ~Owned(x + i)
        BY <1>8, <2>4
      <3>4. ~Overwritten(x + i)
        <4>1. SUFFICES ASSUME NEW c \in Quiescents, x + i \in ClientBytes(c),
                              cpc[c] \in {"installed", "restored", "retired"}
                       PROVE  FALSE
          BY DEF Overwritten
        <4>2. CASE cpc[c] = "retired"
          BY <3>1, <3>2, <4>1, <4>2 DEF GivenBack
        <4>3. CASE cpc[c] # "retired"
          <5>1. c \in pending
            BY <1>1, <4>1, <4>3 DEF ControlInv, ClientInv, Clients
          <5> QED BY <4>1, <5>1, BindFree
        <4> QED BY <4>2, <4>3
      <3> QED BY <1>7, <1>4, <3>2, <3>3, <3>4 DEF PlanInv
    <2> QED BY <2>3, <2>4
  <1>11. ASSUME NEW g \in Handles, g # h
         PROVE  ImageInv(g)' /\ PlanInv(g)' /\ CleanInv(g)'
    <2>1. ImageInv(g) /\ PlanInv(g) /\ CleanInv(g)
      BY <1>1 DEF BytesInv
    <2>2. ImageInv(g)'
      BY <1>3, <1>11, <2>1 DEF ImageInv, Writing, Window
    <2>3. PlanInv(g)'
      BY <1>3, <1>5, <1>6, <1>11, <2>1 DEF PlanInv
    <2>4. CleanInv(g)'
      BY <1>3, <1>5, <1>6, <1>11, <2>1 DEF CleanInv, Bound
    <2> QED BY <2>2, <2>3, <2>4
  <1>12. ImageInv(h)' /\ PlanInv(h)'
    BY <1>3 DEF ImageInv, PlanInv, Writing
  <1>13. CleanInv(h)'
    <2>1. SUFFICES ASSUME NoneWritten, NEW i \in Index \ Own
                   PROVE  Canonical(h)[i] = "orig"
      BY <1>3, <1>5 DEF CleanInv, Bound
    <2>2. CASE \E y \in Sites : /\ kind[y] = "word" /\ x + i - y \in Own
                                /\ Canonical(h)[i] = original[y][x + i - y]
      BY <1>7, <2>1, <2>2 DEF PristineInv
    <2>3. CASE /\ Canonical(h)[i] = orig[h][i]
               /\ \A z \in Sites : z # x => x + i \notin OwnBytes(z)
      <3>1. x + i \notin OwnBytes(x)
        BY <1>2, <2>1 DEF OwnBytes, Own, Index
      <3>2. ~Owned(x + i)
        BY <2>3, <3>1 DEF Owned
      <3> QED BY <1>7, <1>4, <2>1, <2>3, <3>2 DEF CleanInv
    <2> QED BY <2>1, <2>2, <2>3, CanonicalBytes
  <1>14. PristineInv'
    <2>1. SUFFICES ASSUME NoneWritten
                   PROVE  /\ \A a \in Addr : mem[a] # "orig" => Owned(a)'
                          /\ \A y \in Sites' : kind'[y] = "word" =>
                               \A i \in Own : original'[y][i] = "orig"
      BY <1>3, <1>5 DEF PristineInv
    <2>2. \A a \in Addr : mem[a] # "orig" => Owned(a)'
      BY <1>6, <1>7, <2>1 DEF PristineInv
    <2>3. ASSUME NEW y \in Sites', kind'[y] = "word", NEW i \in Own
          PROVE  original'[y][i] = "orig"
      <3>1. CASE y = x /\ kind[x] = "none"
        <4>1. i \in Index /\ original'[y][i] = orig[h][i]
          BY <1>3, <1>9, <3>1 DEF Own, Index
        <4>2. ~Owned(x + i)
          BY <1>8, <3>1
        <4> QED BY <1>7, <1>4, <2>1, <4>1, <4>2 DEF CleanInv
      <3>2. CASE ~(y = x /\ kind[x] = "none")
        <4>1. y \in Sites /\ kind[y] = "word" /\ original'[y] = original[y]
          BY <1>2, <1>3, <2>3, <3>2 DEF Sites
        <4> QED BY <1>7, <2>1, <4>1 DEF PristineInv
      <3> QED BY <3>1, <3>2
    <2> QED BY <2>2, <2>3
  <1> QED BY <1>10, <1>11, <1>12, <1>13, <1>14 DEF BytesInv

-----------------------------------------------------------------------------
(* The theorems.                                                           *)

LEMMA InitIInv == ASSUME Init PROVE IInv
  <1> USE ScaleAssumption, SitesAssumption
  <1>1. TypeOK
    <2>1. /\ mem \in [Addr -> Byte] /\ dispEnd \in [Addr -> Nat]
          /\ kind \in [Addr -> {"none", "word", "split", "rapid"}]
          /\ phase \in [Addr -> {"IDLE", "WRITING"}] /\ pending \subseteq Clients
      BY DEF Init, Byte, Addr
    <2>2. [i \in Index |-> "orig"] \in Image8
      BY DEF Image8, Byte
    <2>3. /\ original \in [Addr -> Image8] /\ committed \in [Addr -> Image8]
          /\ orig \in [Handles -> Image8] /\ tail \in [Handles -> Image8]
          /\ exp \in [Handles -> Image8] /\ rep \in [Handles -> Image8]
      BY <2>2 DEF Init
    <2>4. /\ hpc \in [Handles -> {"unplanned", "planned", "bound", "compare",
                                  "store", "finish", "release"}]
          /\ displaced \in [Handles -> Nat]
          /\ done \in [Handles -> {"none", "ok", "mismatch"}]
          /\ cpc \in [Clients -> {"none", "reserved", "installed", "restored",
                                  "retired"}]
      BY DEF Init
    <2>5. site \in [Handles -> Addr]
      BY DEF Init, Addr
    <2> QED BY <2>1, <2>3, <2>4, <2>5 DEF TypeOK
  <1>2. Sites = {}
    BY DEF Init, Sites
  <1>3. ControlInv
    <2>1. ASSUME NEW x \in Addr PROVE SiteInv(x)
      BY DEF Init, SiteInv
    <2>2. ASSUME NEW c \in Clients PROVE ClientInv(c)
      BY <1>2 DEF Init, ClientInv
    <2>3. ASSUME NEW h \in Handles PROVE HandleInv(h)
      BY DEF Init, HandleInv, Bound, Writing
    <2>4. SitesApart /\ ClientsApart /\ WritersApart /\ LocksApart
      BY <1>2 DEF Init, SitesApart, ClientsApart, WritersApart, LocksApart, Writing,
                  Claimed
    <2> QED BY <2>1, <2>2, <2>3, <2>4 DEF ControlInv
  <1>4. BytesInv
    <2>1. ASSUME NEW x \in Addr PROVE LiveInv(x)
      BY DEF Init, LiveInv
    <2>2. ASSUME NEW h \in Handles PROVE ImageInv(h) /\ PlanInv(h) /\ CleanInv(h)
      BY DEF Init, ImageInv, PlanInv, CleanInv, Bound, Writing
    <2>3. PristineInv
      BY <1>2 DEF Init, PristineInv
    <2> QED BY <2>1, <2>2, <2>3 DEF BytesInv
  <1> QED BY <1>1, <1>3, <1>4 DEF IInv

LEMMA NextIInv == ASSUME IInv, [Next]_vars PROVE IInv'
  <1>1. TypeOK'
    BY TypeKept
  <1>2. CASE UNCHANGED vars
    <2>1. UNCHANGED <<mem, kind, dispEnd, phase, original, committed, pending, hpc,
                      site, displaced, orig, tail, exp, rep, done, cpc>>
      BY <1>2 DEF vars, registry, plans
    <2>2. ControlInv'
      BY <1>1, <2>1, RegistryUntouched
    <2>3. /\ \A x \in Addr : LiveInv(x)'
          /\ \A g \in Handles \ {"orig"} :
               ImageInv(g)' /\ PlanInv(g)' /\ CleanInv(g)'
          /\ PristineInv'
      BY <1>1, <2>1, QuietStep, ClientsAssumption DEF Sites
    <2> QED BY <1>1, <2>2, <2>3, ClientsAssumption DEF IInv, BytesInv
  <1>3. ASSUME NEW h \in Handles, NEW x \in JumpSites, Plan(h, x)
        PROVE  ControlInv' /\ BytesInv'
    BY <1>1, <1>3, PlanControl, PlanBytes
  <1>4. ASSUME NEW h \in Handles, Bind(h) PROVE ControlInv' /\ BytesInv'
    BY <1>1, <1>4, BindControl, BindBytes
  <1>5. ASSUME NEW h \in Handles, BindFails(h) PROVE ControlInv' /\ BytesInv'
    BY <1>1, <1>5, LocalControl, BindFailsBytes
  <1>6. ASSUME NEW h \in Handles, NEW o \in {"apply", "revert"}, Begin(h, o)
        PROVE  ControlInv' /\ BytesInv'
    BY <1>1, <1>6, BeginControl, BeginBytes
  <1>7. ASSUME NEW h \in Handles, NEW o \in {"apply", "revert"}, BeginFails(h, o)
        PROVE  ControlInv' /\ BytesInv'
    BY <1>1, <1>7, LocalControl, BeginFailsBytes
  <1>8. ASSUME NEW h \in Handles, Compare(h) PROVE ControlInv' /\ BytesInv'
    BY <1>1, <1>8, LocalControl, CompareBytes
  <1>9. ASSUME NEW h \in Handles, Store(h) PROVE ControlInv' /\ BytesInv'
    BY <1>1, <1>9, LocalControl, StoreBytes
  <1>10. ASSUME NEW h \in Handles, Finish(h) PROVE ControlInv' /\ BytesInv'
    <2>1. CASE Record(h)
      BY <1>1, <2>1, LocalControl, RecordBytes
    <2>2. CASE Release(h)
      BY <1>1, <2>2, ReleaseControl, ReleaseBytes
    <2> QED BY <1>10, <2>1, <2>2 DEF Finish
  <1>11. ASSUME NEW c \in Clients, Reserve(c) PROVE ControlInv' /\ BytesInv'
    BY <1>1, <1>11, ReserveControl, ClientBytesKept
  <1>12. ASSUME NEW c \in Clients, Cancel(c) \/ QuiescentRelease(c)
         PROVE  ControlInv' /\ BytesInv'
    BY <1>1, <1>12, GiveUpControl, ClientBytesKept
  <1>13. ASSUME NEW c \in Clients, RapidCommit(c) PROVE ControlInv' /\ BytesInv'
    BY <1>1, <1>13, RapidCommitControl, ClientBytesKept
  <1>14. ASSUME NEW c \in Clients,
                \/ \E b \in {"orig", c} : RapidToggle(c, b)
                \/ QuiescentWrite(c) \/ QuiescentRetire(c)
         PROVE  ControlInv' /\ BytesInv'
    BY <1>1, <1>14, WriteControl, WriteBytes
  <1>15. CASE Next
    BY <1>1, <1>3, <1>4, <1>5, <1>6, <1>7, <1>8, <1>9, <1>10, <1>11, <1>12,
       <1>13, <1>14, <1>15 DEF Next, HandleStep, ClientStep, IInv
  <1> QED BY <1>2, <1>15

\* The inductive invariant holds in every reachable state.
THEOREM Invariant == Spec => []IInv
  <1>1. Init => IInv
    BY InitIInv
  <1>2. IInv /\ [Next]_vars => IInv'
    BY NextIInv
  <1> QED BY <1>1, <1>2, PTL DEF Spec

\* Whatever the order of planning, binding, reserving and publishing: a
\* reservation that meets a jump site's is of another word site, so that
\* begin_jump's expect holds, and of two publications of overlapping windows
\* at most one is between its comparison and its release (RegistryInv).
THEOREM Registered == Spec => []RegistryInv
  <1>1. ASSUME IInv PROVE RegistryInv
    <2>1. TypeOK /\ ControlInv
      BY <1>1 DEF IInv
    <2>2. SharedAreWords
      BY <2>1 DEF SharedAreWords, ControlInv, SitesApart
    <2>3. ASSUME NEW g \in Handles, NEW h \in Handles, g # h, Writing(g), Writing(h)
          PROVE  ~Overlap(<<site[g], site[g] + WindowLen>>,
                          <<site[h], site[h] + WindowLen>>)
      <3>1. /\ site[g] \in Sites /\ kind[site[g]] # "rapid"
            /\ site[h] \in Sites /\ kind[site[h]] # "rapid"
        BY <1>1, <2>3, HandlePlace DEF Writing, Bound
      <3>2. /\ site[g] # site[h]
            /\ phase[site[g]] = "WRITING" /\ phase[site[h]] = "WRITING"
        BY <2>1, <2>3 DEF ControlInv, WritersApart, HandleInv
      <3> QED BY <2>1, <3>1, <3>2 DEF ControlInv, LocksApart
    <2> QED BY <2>1, <2>2, <2>3 DEF RegistryInv, OverlappingWritersExclude
  <1> QED BY <1>1, Invariant, PTL

\* No instruction is displaced twice: what bound handles of different sites,
\* installed rapid probes and reservations claim is pairwise disjoint
\* (DisplacedDisjoint).
THEOREM Disjoint == Spec => []DisplacedDisjoint
  <1>1. ASSUME IInv PROVE DisplacedDisjoint
    <2> USE ScaleAssumption, SitesAssumption
    <2>1. TypeOK /\ ControlInv
      BY <1>1 DEF IInv
    <2>2. ASSUME NEW h \in Handles, Bound(h)
          PROVE  /\ site[h] \in Sites /\ kind[site[h]] \in {"word", "split"}
                 /\ site[h] \in Int /\ displaced[h] \in Nat
                 /\ dispEnd[site[h]] \in Int
                 /\ site[h] + displaced[h] <= dispEnd[site[h]]
                 /\ Reservation(site[h], kind[site[h]])[1] \in Int
                 /\ Reservation(site[h], kind[site[h]])[2] \in Int
                 /\ Span(site[h])[1] \in Int /\ Span(site[h])[2] \in Int
                 /\ Span(site[h])[1] <= site[h]
                 /\ Span(site[h])[1] <= Reservation(site[h], kind[site[h]])[1]
                 /\ dispEnd[site[h]] <= Span(site[h])[2]
                 /\ Reservation(site[h], kind[site[h]])[2] <= Span(site[h])[2]
      <3>1. /\ site[h] \in Sites /\ kind[site[h]] \in {"word", "split"}
            /\ site[h] \in Int /\ displaced[h] \in Nat /\ site[h] \in Addr
        BY <1>1, <2>2, HandlePlace DEF Bound
      <3>2. site[h] + displaced[h] <= dispEnd[site[h]] /\ SiteInv(site[h])
        BY <2>1, <2>2, <3>1 DEF ControlInv, HandleInv
      <3> QED BY <2>1, <3>1, <3>2, SitePlace
    <2>3. ASSUME NEW c \in Clients, Claimed(c), NEW y \in Sites,
                 kind[y] # "rapid"
          PROVE  ~Overlap(ClientRange(c), Span(y))
      <3>1. ClientInv(c) /\ SiteInv(y) /\ SiteOf[c] \in Int
        BY <2>1 DEF ControlInv, Sites, Clients
      <3>2. CASE c \in pending
        BY <3>1, <3>2 DEF ClientInv
      <3>3. CASE c \in Rapids /\ cpc[c] = "installed"
        <4> DEFINE x == SiteOf[c]
        <4>1. /\ x \in Sites /\ x # y /\ kind[x] = "rapid"
              /\ dispEnd[x] = x + JumpLen
          BY <2>3, <3>1, <3>3 DEF ClientInv, Sites, Addr, Clients
        <4>2. /\ ~Overlap(<<x, dispEnd[x]>>, <<y, dispEnd[y]>>)
              /\ ~Overlap(Reservation(x, kind[x]), Reservation(y, kind[y]))
          BY <2>1, <2>3, <4>1 DEF ControlInv, SitesApart
        <4>3. Reservation(x, kind[x]) = <<x, x + JumpLen>>
          BY <4>1 DEF Reservation
        <4>4. /\ y \in Int /\ dispEnd[y] \in Int /\ dispEnd[y] >= y + JumpLen
              /\ Reservation(y, kind[y])[1] \in Int
              /\ Reservation(y, kind[y])[2] \in Int
              /\ Reservation(y, kind[y])[1] <= y
              /\ y + JumpLen <= Reservation(y, kind[y])[2]
          BY <2>1, <3>1, SitePlace
        <4>5. Span(y) = <<Reservation(y, kind[y])[1],
                          IF Reservation(y, kind[y])[2] > dispEnd[y]
                          THEN Reservation(y, kind[y])[2] ELSE dispEnd[y]>>
          BY <4>4 DEF Span
        <4> QED BY <3>1, <4>1, <4>2, <4>3, <4>4, <4>5 DEF Overlap, ClientRange
      <3> QED BY <2>3, <3>2, <3>3 DEF Claimed
    <2>4. ASSUME NEW g \in Handles, NEW h \in Handles, Bound(g), Bound(h),
                 site[g] # site[h]
          PROVE  ~Overlap(Claim(g), Claim(h))
      <3>1. ~Overlap(<<site[g], dispEnd[site[g]]>>, <<site[h], dispEnd[site[h]]>>)
        BY <2>1, <2>2, <2>4 DEF ControlInv, SitesApart
      <3> QED BY <2>2, <2>4, <3>1 DEF Overlap, Claim
    <2>5. ASSUME NEW c \in Clients, NEW h \in Handles, Claimed(c), Bound(h)
          PROVE  /\ ~Overlap(ClientRange(c), Claim(h))
                 /\ ~Overlap(ClientRange(c), Reservation(site[h], kind[site[h]]))
      <3>1. ~Overlap(ClientRange(c), Span(site[h]))
        BY <2>2, <2>3, <2>5
      <3>2. SiteOf[c] \in Int
        BY DEF Clients
      <3> QED BY <2>2, <2>5, <3>1, <3>2 DEF Overlap, Claim, ClientRange
    <2>6. ClientsApart
      BY <2>1 DEF ControlInv
    <2> QED BY <2>4, <2>5, <2>6 DEF DisplacedDisjoint, ClientsApart
  <1> QED BY <1>1, Invariant, PTL

\* What an idle word site holds as committed is what is in memory, unless an
\* installation has given its bytes back (CommittedIsLive).
THEOREM Live == Spec => []CommittedIsLive
  <1>1. ASSUME IInv PROVE CommittedIsLive
    <2>1. BytesInv /\ ControlInv
      BY <1>1 DEF IInv
    <2> SUFFICES ASSUME NEW x \in Sites, kind[x] = "word", phase[x] = "IDLE",
                        OwnBytes(x) \cap GivenBack = {}
                 PROVE  \A i \in Own : mem[x + i] = committed[x][i]
      BY DEF CommittedIsLive
    <2>2. \A h \in Handles : ~(site[h] = x /\ hpc[h] = "finish" /\ done[h] = "ok")
      BY <2>1 DEF ControlInv, HandleInv, Writing
    <2>3. LiveInv(x)
      BY <2>1 DEF BytesInv, Sites
    <2> QED BY <2>2, <2>3 DEF LiveInv
  <1> QED BY <1>1, Invariant, PTL

\* No byte has two holders, and a client that holds one is no jump.
LEMMA HoldersApart ==
  ASSUME IInv
  PROVE  /\ \A g, h \in Handles : Bound(g) /\ Bound(h) /\ site[g] # site[h]
              => OwnBytes(site[g]) \cap OwnBytes(site[h]) = {}
         /\ \A c, d \in Clients : Claimed(c) /\ Claimed(d) /\ c # d
              => ClientBytes(c) \cap ClientBytes(d) = {}
         /\ \A c \in Clients, h \in Handles : Claimed(c) /\ Bound(h)
              => ClientBytes(c) \cap OwnBytes(site[h]) = {}
  <1> USE ScaleAssumption, SitesAssumption
  <1>1. ASSUME NEW h \in Handles, Bound(h)
        PROVE  site[h] \in Sites /\ kind[site[h]] # "rapid"
    BY <1>1, HandlePlace DEF Bound
  <1>2. ASSUME NEW g \in Handles, NEW h \in Handles, Bound(g), Bound(h), site[g] # site[h]
        PROVE  OwnBytes(site[g]) \cap OwnBytes(site[h]) = {}
    BY <1>1, <1>2, SitesDisjoint
  <1>3. ASSUME NEW c \in Clients, NEW d \in Clients, Claimed(c), Claimed(d), c # d
        PROVE  ClientBytes(c) \cap ClientBytes(d) = {}
    <2>1. ~Overlap(ClientRange(c), ClientRange(d))
      BY <1>3 DEF IInv, ControlInv, ClientsApart
    <2>2. SiteOf[c] \in Int /\ SiteOf[d] \in Int
      BY DEF Clients
    <2> QED BY <2>1, <2>2 DEF Overlap, ClientRange, ClientBytes
  <1>4. ASSUME NEW c \in Clients, NEW h \in Handles, Claimed(c), Bound(h)
        PROVE  ClientBytes(c) \cap OwnBytes(site[h]) = {}
    <2>1. CASE c \in pending
      BY <1>1, <1>4, <2>1, ClientDisjoint
    <2>2. CASE c \in Rapids /\ cpc[c] = "installed"
      <3>1. SiteOf[c] \in Sites /\ kind[SiteOf[c]] = "rapid"
        BY <2>2 DEF IInv, ControlInv, ClientInv, Sites, Addr, Clients
      <3>2. ClientBytes(c) = OwnBytes(SiteOf[c])
        BY DEF ClientBytes, OwnBytes
      <3> QED BY <1>1, <1>4, <3>1, <3>2, SitesDisjoint
    <2> QED BY <1>4, <2>1, <2>2 DEF Claimed
  <1> QED BY <1>2, <1>3, <1>4

\* Whoever changes a byte is the only one who holds it (StoresOnlyOwnBytes).
THEOREM OwnStores == Spec => StoresOnlyOwnBytes
  <1> DEFINE A(a) ==
       \/ /\ \E h \in Handles : Store(h) /\ JumpHolders(a) = {site[h]}
          /\ ClientHolders(a) = {}
       \/ /\ \E c \in Clients : ClientWrite(c) /\ ClientHolders(a) = {c}
          /\ JumpHolders(a) = {}
  <1>1. ASSUME IInv, IInv', [Next]_vars, NEW a \in Addr, mem'[a] # mem[a] PROVE A(a)
    <2>1. \/ \E h \in Handles : Store(h)
          \/ \E c \in Clients : ClientWrite(c)
      BY <1>1
         DEF Next, HandleStep, ClientStep, ClientWrite, vars, Plan, Bind, BindFails,
             Begin, BeginFails, Compare, Finish, Record, Release, Reserve, Cancel,
             RapidCommit, QuiescentRelease
    <2>2. ASSUME NEW h \in Handles, Store(h) PROVE A(a)
      <3>1. Bound(h) /\ a \in OwnBytes(site[h])
        BY <1>1, <2>2, StoreEffect DEF Store, Bound
      <3>2. JumpHolders(a) = {site[h]}
        BY <1>1, <3>1, HoldersApart DEF JumpHolders
      <3>3. ClientHolders(a) = {}
        BY <1>1, <3>1, HoldersApart DEF ClientHolders
      <3> QED BY <2>2, <3>2, <3>3
    <2>3. ASSUME NEW c \in Clients, ClientWrite(c) PROVE A(a)
      <3>1. TypeOK' /\ ClientInv(c)
        BY <1>1 DEF IInv, ControlInv
      <3>2. a \in ClientBytes(c)
        BY <1>1, <2>3, <3>1, ClientWrites DEF ClientWrite
      <3>3. Claimed(c)
        BY <2>3, <3>1
           DEF ClientWrite, RapidToggle, QuiescentWrite, QuiescentRetire, ClientInv, Claimed
      <3>4. ClientHolders(a) = {c}
        BY <1>1, <3>2, <3>3, HoldersApart DEF ClientHolders
      <3>5. JumpHolders(a) = {}
        BY <1>1, <3>2, <3>3, HoldersApart DEF JumpHolders
      <3> QED BY <2>3, <3>4, <3>5
    <2> QED BY <2>1, <2>2, <2>3
  <1>2. ASSUME IInv, IInv', [Next]_vars
        PROVE  \A a \in Addr : mem'[a] # mem[a] => A(a)
    BY <1>1, <1>2
  <1> QED BY <1>2, Invariant, PTL DEF Spec, StoresOnlyOwnBytes

\* Until an installation has written, begin_jump recognises every neighbour.
LEMMA AllRecognised ==
  ASSUME IInv, NoneWritten, NEW h \in Handles, hpc[h] = "bound",
         kind[site[h]] = "word", NEW o \in {"apply", "revert"}
  PROVE  Unrecognised(site[h], From(h, o)) = {}
  <1> USE ScaleAssumption
  <1> DEFINE x == site[h]
  <1> SUFFICES ASSUME NEW y \in Upper(x), NEW i \in Index,
                      y <= x + i, x + i < y + JumpLen
               PROVE  From(h, o)[i] = original[y][x + i - y]
    BY DEF Unrecognised
  <1>1. x \in Sites /\ x \in Int
    BY HandlePlace DEF Bound
  <1>2. y \in Sites /\ kind[y] = "word" /\ x < y /\ y \in Int /\ i \in Int
    BY DEF Upper, Sites, Addr, Index
  <1>3. x + JumpLen <= y
    BY <1>1, <1>2, SitesDisjoint
  <1>4. i \in Index \ Own /\ x + i - y \in Own
    BY <1>1, <1>2, <1>3 DEF Own
  <1>5. From(h, o)[i] = "orig"
    BY <1>4 DEF From, Image, WithTail, IInv, BytesInv, CleanInv, Bound
  <1>6. original[y][x + i - y] = "orig"
    BY <1>2, <1>4 DEF IInv, BytesInv, PristineInv
  <1> QED BY <1>5, <1>6

\* Until an installation has written, a publication is refused for unexpected
\* bytes only if its own are unexpected (MismatchIsOwn).
THEOREM Blameless == Spec => MismatchIsOwn
  <1> DEFINE A == (\A c \in Quiescents : cpc[c] \in {"none", "reserved"}) =>
     \A h \in Handles : done[h] # "mismatch" /\ done'[h] = "mismatch" =>
       hpc[h] = "compare" /\ \E i \in Own : mem[site[h] + i] # exp[h][i]
  <1>1. ASSUME IInv, [Next]_vars PROVE A
    <2> SUFFICES ASSUME NoneWritten, NEW h \in Handles,
                        done[h] # "mismatch", done'[h] = "mismatch"
                 PROVE  hpc[h] = "compare" /\ \E i \in Own : mem[site[h] + i] # exp[h][i]
      BY DEF NoneWritten
    <2>1. TypeOK /\ BytesInv
      BY <1>1 DEF IInv
    <2>2. \/ \E g \in Handles : Compare(g)
          \/ \E g \in Handles, o \in {"apply", "revert"} : BeginFails(g, o)
      <3>1. ASSUME NEW g \in Handles, NEW o \in {"apply", "revert"}, Begin(g, o)
            PROVE  FALSE
        BY <2>1, <3>1 DEF Begin, TypeOK
      <3>2. ASSUME NEW g \in Handles, Store(g) PROVE FALSE
        BY <2>1, <3>2 DEF Store, TypeOK
      <3> QED
        BY <1>1, <3>1, <3>2
           DEF Next, HandleStep, ClientStep, vars, Plan, Bind, BindFails, Finish,
               Record, Release, Held, Reserve, Cancel, RapidCommit, RapidToggle,
               QuiescentWrite, QuiescentRetire, QuiescentRelease
    <2>3. ASSUME NEW g \in Handles, NEW o \in {"apply", "revert"}, BeginFails(g, o)
          PROVE  FALSE
      BY <1>1, <2>3, AllRecognised DEF BeginFails
    <2>4. ASSUME NEW g \in Handles, Compare(g)
          PROVE  hpc[h] = "compare" /\ \E i \in Own : mem[site[h] + i] # exp[h][i]
      <3>1. g = h /\ hpc[h] = "compare" /\ Window(mem, site[h]) # exp[h]
        BY <2>1, <2>4 DEF Compare, TypeOK
      <3>2. exp[h] \in [Index -> Byte]
        BY <2>1 DEF TypeOK, Image8
      <3>3. \E i \in Index : mem[site[h] + i] # exp[h][i]
        BY <3>1, <3>2 DEF Window
      <3>4. \A i \in Index \ Own : mem[site[h] + i] = exp[h][i]
        BY <2>1, <3>1 DEF BytesInv, CleanInv
      <3> QED BY <3>1, <3>3, <3>4
    <2> QED BY <2>2, <2>3, <2>4
  <1> QED BY <1>1, Invariant, PTL DEF Spec, MismatchIsOwn

-----------------------------------------------------------------------------
(* The registry as a whole.                                                *)

\* A site claims its displaced bytes, a pending client its range; no byte is
\* claimed twice.
ClaimsInv ==
  /\ claims \in [Addr -> SUBSET Addr]
  /\ \A x \in Sites : OwnBytes(x) \subseteq claims[x]
  /\ \A c \in pending : SiteOf[c] \in Addr \ Sites /\ claims[SiteOf[c]] = ClientBytes(c)
  /\ \A x, y \in Addr : x # y => claims[x] \cap claims[y] = {}

\* A byte that is not original is a site's own, or under an installation.
CoveredInv ==
  \A a \in Addr : mem[a] # "orig" =>
    Owned(a) \/ \E c \in Quiescents : cpc[c] = "installed" /\ a \in ClientBytes(c)

\* Where a pending client stands: apart from every site and every other
\* pending client.
LEMMA PendingPlace ==
  ASSUME IInv, NEW c \in pending
  PROVE  /\ c \in Clients /\ SiteOf[c] \in Addr /\ SiteOf[c] \in Int
         /\ ClientBytes(c) \subseteq Addr /\ SiteOf[c] \in ClientBytes(c)
         /\ \A y \in Sites : /\ SiteOf[c] # y
                             /\ \A a \in ClientBytes(c) : a < y \/ dispEnd[y] <= a
         /\ \A d \in pending \ {c} : /\ SiteOf[d] # SiteOf[c]
                                     /\ ClientBytes(c) \cap ClientBytes(d) = {}
  <1> USE ScaleAssumption, SitesAssumption
  <1>1. c \in Clients /\ TypeOK /\ ClientInv(c) /\ ClientsApart
    BY DEF IInv, ControlInv, TypeOK
  <1>2. \A d \in pending : d \in Clients /\ SiteOf[d] \in 0 .. CodeLen - JumpLen
    BY <1>1 DEF TypeOK, Clients
  <1>3. /\ SiteOf[c] \in Addr /\ SiteOf[c] \in Int
        /\ ClientBytes(c) \subseteq Addr /\ SiteOf[c] \in ClientBytes(c)
    BY <1>2 DEF Addr, ClientBytes
  <1>4. ASSUME NEW y \in Sites
        PROVE  SiteOf[c] # y /\ \A a \in ClientBytes(c) : a < y \/ dispEnd[y] <= a
    <2>1. SiteInv(y)
      BY DEF IInv, ControlInv, Sites
    <2>2. /\ y \in Int /\ dispEnd[y] \in Int /\ dispEnd[y] >= y + JumpLen
          /\ Span(y)[1] \in Int /\ Span(y)[2] \in Int /\ Span(y)[1] <= y
          /\ dispEnd[y] <= Span(y)[2]
      BY <1>1, <2>1, SitePlace
    <2>3. ~Overlap(ClientRange(c), Span(y))
      BY <1>1 DEF ClientInv
    <2>4. SiteOf[c] >= Span(y)[2] \/ Span(y)[1] >= SiteOf[c] + JumpLen
      BY <1>3, <2>2, <2>3 DEF Overlap, ClientRange
    <2> QED BY <1>3, <2>2, <2>4 DEF ClientBytes
  <1>5. ASSUME NEW d \in pending \ {c}
        PROVE  SiteOf[d] # SiteOf[c] /\ ClientBytes(c) \cap ClientBytes(d) = {}
    <2>1. ~Overlap(ClientRange(c), ClientRange(d))
      BY <1>1, <1>2 DEF ClientsApart, Claimed
    <2>2. SiteOf[c] >= SiteOf[d] + JumpLen \/ SiteOf[d] >= SiteOf[c] + JumpLen
      BY <1>2, <2>1 DEF Overlap, ClientRange
    <2> QED BY <1>2, <2>2 DEF ClientBytes
  <1> QED BY <1>1, <1>3, <1>4, <1>5

\* A claim is a site's or a pending client's.
LEMMA ClaimOf ==
  ASSUME IInv, NEW x \in Addr
  PROVE  /\ x \in Sites => claims[x] = {a \in Addr : x <= a /\ a < dispEnd[x]}
         /\ x \notin Sites /\ (\A c \in pending : SiteOf[c] # x) => claims[x] = {}
         /\ \A c \in pending : SiteOf[c] = x => claims[x] = ClientBytes(c)
  <1>1. x \in Sites => claims[x] = {a \in Addr : x <= a /\ a < dispEnd[x]}
    BY DEF claims
  <1>2. ASSUME x \notin Sites
        PROVE  claims[x] = UNION {ClientBytes(c) : c \in {d \in pending : SiteOf[d] = x}}
    BY <1>2 DEF claims
  <1>3. ASSUME NEW c \in pending, SiteOf[c] = x PROVE claims[x] = ClientBytes(c)
    <2>1. x \notin Sites
      BY <1>3, PendingPlace
    <2>2. {d \in pending : SiteOf[d] = x} = {c}
      BY <1>3, PendingPlace
    <2> QED BY <1>2, <2>1, <2>2
  <1> QED BY <1>1, <1>2, <1>3

LEMMA ClaimsHold == IInv => ClaimsInv
  <1> SUFFICES ASSUME IInv PROVE ClaimsInv
    OBVIOUS
  <1> USE ScaleAssumption, SitesAssumption
  <1>1. ASSUME NEW x \in Sites PROVE OwnBytes(x) \subseteq claims[x]
    <2>1. x \in Addr /\ SiteInv(x) /\ TypeOK
      BY DEF Sites, IInv, ControlInv
    <2>2. OwnBytes(x) \subseteq Addr /\ x \in Int
      <3>1. CASE kind[x] = "rapid"
        <4>1. PICK c \in Rapids : SiteOf[c] = x
          BY <2>1, <3>1 DEF SiteInv
        <4>2. x \in 0 .. CodeLen - JumpLen
          BY <4>1
        <4> QED BY <4>2 DEF OwnBytes, Addr
      <3>2. CASE kind[x] \in {"word", "split"}
        <4>1. x \in 0 .. CodeLen - WindowLen
          BY <2>1, <3>2 DEF SiteInv
        <4> QED BY <4>1 DEF OwnBytes, Addr
      <3> QED BY <2>1, <3>1, <3>2, SitePlace
    <2>3. dispEnd[x] \in Int /\ dispEnd[x] >= x + JumpLen
      BY <2>1, SitePlace
    <2> QED BY <2>1, <2>2, <2>3, ClaimOf DEF OwnBytes
  <1>2. ASSUME NEW x \in Addr PROVE claims[x] \subseteq Addr
    BY <1>2, ClaimOf, PendingPlace
  <1>3. claims \in [Addr -> SUBSET Addr]
    BY <1>2 DEF claims
  <1>4. ASSUME NEW c \in pending
        PROVE  SiteOf[c] \in Addr \ Sites /\ claims[SiteOf[c]] = ClientBytes(c)
    BY <1>4, ClaimOf, PendingPlace
  <1>5. ASSUME NEW x \in Addr, NEW y \in Addr, x # y
        PROVE  claims[x] \cap claims[y] = {}
    <2>1. CASE x \in Sites /\ y \in Sites
      <3>1. /\ x \in Int /\ dispEnd[x] \in Int /\ dispEnd[x] >= x + JumpLen
            /\ y \in Int /\ dispEnd[y] \in Int /\ dispEnd[y] >= y + JumpLen
        BY <2>1, SitePlace DEF IInv, ControlInv
      <3>2. ~Overlap(<<x, dispEnd[x]>>, <<y, dispEnd[y]>>)
        BY <1>5, <2>1 DEF IInv, ControlInv, SitesApart
      <3>3. dispEnd[x] <= y \/ dispEnd[y] <= x
        BY <3>1, <3>2 DEF Overlap
      <3>4. /\ claims[x] = {a \in Addr : x <= a /\ a < dispEnd[x]}
            /\ claims[y] = {a \in Addr : y <= a /\ a < dispEnd[y]}
        BY <2>1, ClaimOf
      <3> QED BY <3>1, <3>3, <3>4 DEF Addr
    <2>2. ASSUME NEW c \in pending, NEW z \in Sites
          PROVE  ClientBytes(c) \cap claims[z] = {}
      <3>1. z \in Addr /\ z \in Int /\ dispEnd[z] \in Int
        BY SitePlace DEF IInv, ControlInv, Sites, Addr
      <3>2. claims[z] = {a \in Addr : z <= a /\ a < dispEnd[z]}
        BY <3>1, ClaimOf
      <3>3. \A a \in ClientBytes(c) : a < z \/ dispEnd[z] <= a
        BY PendingPlace
      <3> QED BY <3>1, <3>2, <3>3 DEF Addr
    <2>3. \A z \in Addr \ Sites :
            claims[z] = {} \/ \E c \in pending : SiteOf[c] = z /\ claims[z] = ClientBytes(c)
      BY ClaimOf
    <2>4. CASE x \in Sites /\ y \notin Sites
      BY <2>2, <2>3, <2>4
    <2>5. CASE x \notin Sites /\ y \in Sites
      BY <2>2, <2>3, <2>5
    <2>6. CASE x \notin Sites /\ y \notin Sites
      BY <1>5, <2>3, <2>6, PendingPlace
    <2> QED BY <2>1, <2>4, <2>5, <2>6
  <1> QED BY <1>1, <1>3, <1>4, <1>5 DEF ClaimsInv

\* Growing a claim, giving one back and storing under one.
LEMMA TakesAt ==
  ASSUME ClaimsInv, ClaimsInv', NEW x \in Addr, mem' = mem, claims[x] \subseteq claims'[x],
         \A y \in Addr \ {x} : claims'[y] = claims[y]
  PROVE  Registry!Take(x) \/ UNCHANGED Registry!vars
  <1>1. claims \in [Addr -> SUBSET Addr] /\ claims' \in [Addr -> SUBSET Addr]
    BY DEF ClaimsInv
  <1>2. \A y \in Addr \ {x} : claims[y] \cap claims'[x] = {}
    BY DEF ClaimsInv
  <1>3. CASE claims'[x] = claims[x]
    <2>1. claims' = claims
      BY <1>1, <1>3
    <2> QED BY <2>1 DEF Registry!vars
  <1>4. CASE claims'[x] # claims[x]
    BY <1>1, <1>2, <1>4 DEF Registry!Take
  <1> QED BY <1>3, <1>4

LEMMA GivesBackAt ==
  ASSUME ClaimsInv, ClaimsInv', NEW x \in Addr, mem' = mem, claims[x] # {}, claims'[x] = {},
         \A y \in Addr \ {x} : claims'[y] = claims[y], \A a \in claims[x] : mem[a] = "orig"
  PROVE  Registry!GiveBack(x)
  <1>1. claims \in [Addr -> SUBSET Addr] /\ claims' \in [Addr -> SUBSET Addr]
    BY DEF ClaimsInv
  <1>2. claims' = [claims EXCEPT ![x] = {}]
    BY <1>1
  <1> QED BY <1>2 DEF Registry!GiveBack

LEMMA WritesAt ==
  ASSUME TypeOK, TypeOK', NEW x \in Addr, claims' = claims,
         \A a \in Addr : mem'[a] # mem[a] => a \in claims[x]
  PROVE  Registry!Write(x) \/ UNCHANGED Registry!vars
  <1>1. mem' \in [Addr -> Byte]
    BY DEF TypeOK
  <1> QED BY <1>1 DEF Registry!Write, Registry!vars

\* Until the registry changes, claims do not.
LEMMA ClaimsKept ==
  ASSUME UNCHANGED <<kind, dispEnd, pending>>
  PROVE  claims' = claims
  BY DEF claims, Sites

LEMMA QuietClaims ==
  ASSUME NEW h \in Handles, HandleStep(h), ~Bind(h), ~Store(h)
  PROVE  UNCHANGED Registry!vars
  <1>1. UNCHANGED <<mem, kind, dispEnd, pending>>
    BY DEF HandleStep, Plan, BindFails, Begin, BeginFails, Compare, Finish, Record,
           Release, registry
  <1> QED BY <1>1, ClaimsKept DEF Registry!vars

\* A binding claims what its jump displaces, or adds that to its site's claim.
LEMMA BindClaims ==
  ASSUME IInv, ClaimsInv, ClaimsInv', NEW h \in Handles, Bind(h)
  PROVE  Registry!Take(site[h]) \/ UNCHANGED Registry!vars
  <1> USE ScaleAssumption
  <1> DEFINE x == site[h]
  <1>1. /\ x \in Addr /\ x \in Int /\ NewEnd(h) \in Nat /\ NewEnd(h) >= x + JumpLen
        /\ kind[x] # "none" => NewEnd(h) >= dispEnd[x]
        /\ Range(h)[1] \in Int /\ Range(h)[2] \in Int /\ Range(h)[1] <= x
    BY BindChecked
  <1>2. /\ dispEnd'[x] = NewEnd(h) /\ Sites' = Sites \cup {x} /\ mem' = mem
        /\ \A y \in Addr : y # x => dispEnd'[y] = dispEnd[y]
        /\ pending' = pending
    BY BindEffect
  <1>3. \A y \in Addr \ {x} : claims'[y] = claims[y]
    BY <1>2 DEF claims
  <1>4. claims'[x] = {a \in Addr : x <= a /\ a < NewEnd(h)}
    BY <1>1, <1>2 DEF claims
  <1>5. claims[x] \subseteq claims'[x]
    <2>1. CASE x \in Sites
      <3>1. claims[x] = {a \in Addr : x <= a /\ a < dispEnd[x]}
        BY <1>1, <2>1, ClaimOf
      <3>2. dispEnd[x] \in Int /\ dispEnd[x] <= NewEnd(h)
        BY <1>1, <2>1 DEF Sites, IInv, TypeOK
      <3> QED BY <1>1, <1>4, <3>1, <3>2 DEF Addr
    <2>2. CASE x \notin Sites
      <3>1. ASSUME NEW c \in pending PROVE SiteOf[c] # x
        <4>1. ~Overlap(<<IF Range(h)[1] < x THEN Range(h)[1] ELSE x,
                         IF Range(h)[2] > NewEnd(h) THEN Range(h)[2] ELSE NewEnd(h)>>,
                       ClientRange(c))
          BY BindChecked
        <4>2. SiteOf[c] \in Int
          BY PendingPlace
        <4> QED BY <1>1, <4>1, <4>2 DEF Overlap, ClientRange
      <3> QED BY <1>1, <2>2, <3>1, ClaimOf
    <2> QED BY <2>1, <2>2
  <1> HIDE DEF x
  <1>6. Registry!Take(x) \/ UNCHANGED Registry!vars
    BY <1>1, <1>2, <1>3, <1>5, TakesAt
  <1> QED BY <1>6 DEF x

\* A publication's store changes what its site has claimed.
LEMMA StoreClaims ==
  ASSUME IInv, IInv', ClaimsInv, NEW h \in Handles, Store(h)
  PROVE  site[h] \in Addr /\ (Registry!Write(site[h]) \/ UNCHANGED Registry!vars)
  <1>1. site[h] \in Sites /\ site[h] \in Addr
    BY HandlePlace DEF Store, Bound
  <1>2. \A a \in Addr : mem'[a] # mem[a] => a \in OwnBytes(site[h])
    BY StoreEffect
  <1>3. UNCHANGED <<kind, dispEnd, pending>>
    BY DEF Store, registry
  <1>4. claims' = claims
    BY <1>3, ClaimsKept
  <1>5. \A a \in Addr : mem'[a] # mem[a] => a \in claims[site[h]]
    BY <1>1, <1>2 DEF ClaimsInv
  <1> QED BY <1>1, <1>4, <1>5, WritesAt DEF IInv

\* So do a rapid probe's toggle and an installation's writes.
LEMMA ClientStores ==
  ASSUME IInv, IInv', ClaimsInv, NEW c \in Clients,
         \/ \E b \in {"orig", c} : RapidToggle(c, b)
         \/ QuiescentWrite(c) \/ QuiescentRetire(c)
  PROVE  SiteOf[c] \in Addr /\ (Registry!Write(SiteOf[c]) \/ UNCHANGED Registry!vars)
  <1> USE ScaleAssumption, SitesAssumption
  <1>1. claims' = claims
    <2>1. UNCHANGED <<kind, dispEnd, pending>>
      BY DEF RapidToggle, QuiescentWrite, QuiescentRetire, registry
    <2> QED BY <2>1, ClaimsKept
  <1>2. ClientInv(c) /\ TypeOK /\ TypeOK' /\ SiteOf[c] \in 0 .. CodeLen - JumpLen
    BY DEF IInv, ControlInv, Clients
  <1>3. SiteOf[c] \in Addr
    BY <1>2 DEF Addr
  <1>4. \A a \in Addr : mem'[a] # mem[a] => a \in claims[SiteOf[c]]
    <2>1. ASSUME NEW b \in {"orig", c}, RapidToggle(c, b)
          PROVE  \A a \in Addr : mem'[a] # mem[a] => a \in claims[SiteOf[c]]
      <3>1. SiteOf[c] \in Sites
        BY <1>2, <1>3, <2>1 DEF RapidToggle, ClientInv, Sites
      <3>2. \A a \in Addr : mem'[a] # mem[a] => a = SiteOf[c]
        BY <1>2, <2>1 DEF RapidToggle, TypeOK
      <3>3. SiteOf[c] \in OwnBytes(SiteOf[c])
        BY <1>2 DEF OwnBytes
      <3> QED BY <3>1, <3>2, <3>3 DEF ClaimsInv
    <2>2. CASE QuiescentWrite(c) \/ QuiescentRetire(c)
      <3>1. c \in pending
        BY <1>2, <2>2 DEF QuiescentWrite, QuiescentRetire, ClientInv
      <3>2. \A a \in Addr : mem'[a] # mem[a] => a \in ClientBytes(c)
        BY <2>2 DEF QuiescentWrite, QuiescentRetire
      <3> QED BY <3>1, <3>2 DEF ClaimsInv
    <2> QED BY <2>1, <2>2
  <1> QED BY <1>1, <1>2, <1>3, <1>4, WritesAt

\* A reservation claims its range.
LEMMA ReserveClaims ==
  ASSUME IInv, IInv', ClaimsInv, ClaimsInv', NEW c \in Clients, Reserve(c)
  PROVE  SiteOf[c] \in Addr /\ (Registry!Take(SiteOf[c]) \/ UNCHANGED Registry!vars)
  <1> DEFINE x == SiteOf[c]
  <1>1. /\ UNCHANGED <<mem, kind, dispEnd>> /\ pending' = pending \cup {c}
        /\ c \in pending' /\ Sites' = Sites
    BY DEF Reserve, Sites
  <1>2. x \in Addr \ Sites
    BY <1>1 DEF ClaimsInv
  <1>3. \A y \in Addr \ {x} : claims'[y] = claims[y]
    <2> SUFFICES ASSUME NEW y \in Addr \ {x} PROVE claims'[y] = claims[y]
      OBVIOUS
    <2>1. {d \in pending' : SiteOf[d] = y} = {d \in pending : SiteOf[d] = y}
      BY <1>1
    <2> QED BY <1>1, <2>1 DEF claims
  <1>4. claims[x] \subseteq claims'[x]
    <2>1. {d \in pending : SiteOf[d] = x} \subseteq {d \in pending' : SiteOf[d] = x}
      BY <1>1
    <2> QED BY <1>1, <1>2, <2>1 DEF claims
  <1> HIDE DEF x
  <1>5. Registry!Take(x) \/ UNCHANGED Registry!vars
    BY <1>1, <1>2, <1>3, <1>4, TakesAt
  <1> QED BY <1>2, <1>5 DEF x

\* A reservation that is cancelled, or released after its retirement, leaves
\* original bytes.
LEMMA ReleaseClaims ==
  ASSUME IInv, IInv', ClaimsInv, ClaimsInv', CoveredInv, NEW c \in Clients,
         Cancel(c) \/ QuiescentRelease(c)
  PROVE  SiteOf[c] \in Addr /\ Registry!GiveBack(SiteOf[c])
  <1> DEFINE x == SiteOf[c]
  <1>1. /\ UNCHANGED <<mem, kind, dispEnd>> /\ pending' = pending \ {c} /\ Sites' = Sites
        /\ cpc[c] \in {"reserved", "restored"}
    BY DEF Cancel, QuiescentRelease, Sites
  <1>2. c \in pending
    <2>1. CASE Cancel(c)
      BY <2>1 DEF Cancel, IInv, ControlInv, ClientInv
    <2>2. CASE QuiescentRelease(c)
      <3>1. ClientInv(c) /\ cpc[c] = "restored"
        BY <2>2 DEF QuiescentRelease, IInv, ControlInv
      <3>2. c \in Quiescents
        BY <3>1 DEF ClientInv, Clients
      <3> QED BY <3>1, <3>2 DEF ClientInv
    <2> QED BY <2>1, <2>2
  <1>3. /\ x \in Addr \ Sites /\ claims[x] = ClientBytes(c) /\ claims[x] # {}
        /\ \A d \in pending \ {c} : /\ SiteOf[d] # x
                                    /\ ClientBytes(c) \cap ClientBytes(d) = {}
    BY <1>2, PendingPlace DEF ClaimsInv
  <1>4. \A y \in Addr \ {x} : claims'[y] = claims[y]
    <2> SUFFICES ASSUME NEW y \in Addr \ {x} PROVE claims'[y] = claims[y]
      OBVIOUS
    <2>1. {d \in pending' : SiteOf[d] = y} = {d \in pending : SiteOf[d] = y}
      BY <1>1
    <2> QED BY <1>1, <2>1 DEF claims
  <1>5. claims'[x] = {}
    <2>1. {d \in pending' : SiteOf[d] = x} = {}
      BY <1>1, <1>3
    <2> QED BY <1>1, <1>3, <2>1 DEF claims
  <1>6. ASSUME NEW a \in claims[x] PROVE mem[a] = "orig"
    <2>1. a \in Addr /\ a \in ClientBytes(c)
      BY <1>2, <1>3, PendingPlace
    <2>2. ~Owned(a)
      BY <1>2, <2>1, ClientDisjoint DEF Owned
    <2>3. ASSUME NEW d \in Quiescents, cpc[d] = "installed", a \in ClientBytes(d)
          PROVE  FALSE
      <3>1. d \in pending
        BY <2>3 DEF Clients, IInv, ControlInv, ClientInv
      <3>2. d # c
        BY <1>1, <2>3
      <3> QED BY <1>3, <2>1, <2>3, <3>1, <3>2
    <2> QED BY <2>1, <2>2, <2>3 DEF CoveredInv
  <1> HIDE DEF x
  <1>7. Registry!GiveBack(x)
    BY <1>1, <1>3, <1>4, <1>5, <1>6, GivesBackAt
  <1> QED BY <1>3, <1>7 DEF x

\* A probe's claim becomes its site's.
LEMMA CommitClaims ==
  ASSUME IInv, IInv', ClaimsInv, NEW c \in Clients, RapidCommit(c)
  PROVE  UNCHANGED Registry!vars
  <1> USE ScaleAssumption, SitesAssumption
  <1> DEFINE x == SiteOf[c]
  <1>1. /\ mem' = mem /\ pending' = pending \ {c} /\ cpc[c] = "reserved"
        /\ kind' = [kind EXCEPT ![x] = "rapid"]
        /\ dispEnd' = [dispEnd EXCEPT ![x] = x + JumpLen]
    BY DEF RapidCommit
  <1>2. c \in pending /\ TypeOK
    BY <1>1 DEF IInv, ControlInv, ClientInv
  <1>3. /\ x \in Addr /\ x \in Int /\ claims[x] = ClientBytes(c)
        /\ ClientBytes(c) \subseteq Addr
    BY <1>2, PendingPlace DEF ClaimsInv
  <1>4. x \in Sites' /\ dispEnd'[x] = x + JumpLen
        /\ \A y \in Addr \ {x} : (y \in Sites' <=> y \in Sites) /\ dispEnd'[y] = dispEnd[y]
    BY <1>1, <1>2, <1>3 DEF Sites, TypeOK
  <1>5. claims'[x] = claims[x]
    <2>1. claims'[x] = {a \in Addr : x <= a /\ a < x + JumpLen}
      BY <1>3, <1>4 DEF claims
    <2>2. ClientBytes(c) = {a \in Addr : x <= a /\ a < x + JumpLen}
      BY <1>3 DEF ClientBytes, Addr
    <2> QED BY <1>3, <2>1, <2>2
  <1>6. ASSUME NEW y \in Addr \ {x} PROVE claims'[y] = claims[y]
    <2>1. {d \in pending' : SiteOf[d] = y} = {d \in pending : SiteOf[d] = y}
      BY <1>1
    <2> QED BY <1>4, <2>1 DEF claims
  <1>7. claims' = claims
    BY <1>5, <1>6 DEF claims
  <1> QED BY <1>1, <1>7 DEF Registry!vars

\* Bytes stay covered: sites are never unregistered, and an installation
\* restores what it wrote before it is retired.
LEMMA CoveredStep ==
  ASSUME IInv, IInv', CoveredInv, [Next]_vars
  PROVE  CoveredInv'
  <1> USE ScaleAssumption, SitesAssumption
  <1>0. TypeOK /\ TypeOK'
    BY DEF IInv
  <1>1. ASSUME NEW a \in Addr, mem[a] # "orig", mem'[a] = mem[a],
               Sites \subseteq Sites',
               \A c \in Quiescents : cpc[c] = "installed" /\ a \in ClientBytes(c)
                                    => cpc'[c] = "installed"
        PROVE  Owned(a)' \/ \E c \in Quiescents : cpc'[c] = "installed"
                                                 /\ a \in ClientBytes(c)
    BY <1>1 DEF CoveredInv, Owned
  <1>2. CASE \/ UNCHANGED <<mem, kind, cpc>>
             \/ \E c \in Clients : Reserve(c) \/ Cancel(c) \/ QuiescentRelease(c)
    <2>1. UNCHANGED <<mem, kind>>
      BY <1>2 DEF Reserve, Cancel, QuiescentRelease
    <2>2. \A c \in Quiescents : cpc[c] = "installed" => cpc'[c] = "installed"
      <3>1. CASE cpc' = cpc
        BY <3>1
      <3>2. ASSUME NEW d \in Clients, Reserve(d) \/ Cancel(d) \/ QuiescentRelease(d),
                   NEW c \in Quiescents, cpc[c] = "installed"
            PROVE  cpc'[c] = "installed"
        <4>1. /\ cpc[d] # "installed"
              /\ \E s : cpc' = [cpc EXCEPT ![d] = s]
          BY <3>2 DEF Reserve, Cancel, QuiescentRelease, Held
        <4> QED BY <1>0, <3>2, <4>1 DEF TypeOK, Clients
      <3> QED BY <1>2, <3>1, <3>2
    <2>3. Sites' = Sites
      BY <2>1 DEF Sites
    <2> QED BY <1>1, <2>1, <2>2, <2>3 DEF CoveredInv
  <1>3. ASSUME NEW h \in Handles, Bind(h) PROVE CoveredInv'
    <2>1. UNCHANGED <<mem, cpc>> /\ Sites \subseteq Sites'
      BY <1>3, BindEffect
    <2> QED BY <1>1, <2>1 DEF CoveredInv
  <1>4. ASSUME NEW h \in Handles, Store(h) PROVE CoveredInv'
    <2>1. site[h] \in Sites /\ UNCHANGED <<kind, cpc>>
      BY <1>4, HandlePlace DEF Store, Bound, registry
    <2>2. \A a \in Addr : mem'[a] # mem[a] => a \in OwnBytes(site[h])
      BY <1>4, StoreEffect
    <2>3. Sites' = Sites
      BY <2>1 DEF Sites
    <2> QED BY <1>1, <2>1, <2>2, <2>3 DEF CoveredInv, Owned
  <1>5. ASSUME NEW c \in Clients, RapidCommit(c) PROVE CoveredInv'
    <2>1. mem' = mem /\ \A d \in Quiescents : cpc[d] = "installed" => cpc'[d] = "installed"
      BY <1>0, <1>5 DEF RapidCommit, Held, TypeOK
    <2>2. Sites \subseteq Sites'
      BY <1>0, <1>5 DEF RapidCommit, Sites, TypeOK
    <2> QED BY <1>1, <2>1, <2>2 DEF CoveredInv
  <1>6. ASSUME NEW c \in Clients, NEW b \in {"orig", c}, RapidToggle(c, b)
        PROVE  CoveredInv'
    <2>1. SiteOf[c] \in Sites /\ UNCHANGED <<kind, cpc>>
      <3>1. ClientInv(c) /\ SiteOf[c] \in 0 .. CodeLen - JumpLen
        BY DEF IInv, ControlInv, Clients
      <3> QED BY <1>6, <3>1 DEF RapidToggle, ClientInv, Sites, Addr, registry
    <2>2. \A a \in Addr : mem'[a] # mem[a] => a \in OwnBytes(SiteOf[c])
      <3>1. SiteOf[c] \in Int
        BY <2>1 DEF Sites, Addr
      <3> QED BY <1>0, <1>6, <3>1 DEF RapidToggle, TypeOK, OwnBytes
    <2>3. Sites' = Sites
      BY <2>1 DEF Sites
    <2> QED BY <1>1, <2>1, <2>2, <2>3 DEF CoveredInv, Owned
  <1>7. ASSUME NEW c \in Clients, QuiescentWrite(c) \/ QuiescentRetire(c)
        PROVE  CoveredInv'
    <2>1. /\ c \in Quiescents /\ kind' = kind
          /\ \A d \in Clients \ {c} : cpc'[d] = cpc[d]
          /\ \A a \in Addr : a \notin ClientBytes(c) => mem'[a] = mem[a]
      BY <1>0, <1>7 DEF QuiescentWrite, QuiescentRetire, Held, registry, TypeOK
    <2>2. Sites' = Sites
      BY <2>1 DEF Sites
    <2>3. ASSUME NEW a \in Addr, mem'[a] # "orig", a \in ClientBytes(c)
          PROVE  cpc'[c] = "installed"
      <3>1. CASE QuiescentWrite(c)
        BY <1>0, <3>1 DEF QuiescentWrite, Held, TypeOK
      <3>2. CASE QuiescentRetire(c)
        BY <2>3, <3>2 DEF QuiescentRetire
      <3> QED BY <1>7, <3>1, <3>2
    <2>4. ASSUME NEW a \in Addr, mem'[a] # "orig", a \notin ClientBytes(c)
          PROVE  Owned(a)' \/ \E d \in Quiescents : cpc'[d] = "installed"
                                                   /\ a \in ClientBytes(d)
      <3>1. mem[a] # "orig" /\ mem'[a] = mem[a]
        BY <2>1, <2>4
      <3>2. \A d \in Quiescents : cpc[d] = "installed" /\ a \in ClientBytes(d)
                                  => cpc'[d] = "installed"
        BY <2>1, <2>4 DEF Clients
      <3> QED BY <1>1, <2>2, <3>1, <3>2
    <2> QED BY <2>1, <2>3, <2>4 DEF CoveredInv
  <1>8. CASE UNCHANGED vars
    BY <1>2, <1>8 DEF vars, registry
  <1>9. ASSUME NEW h \in Handles, HandleStep(h), ~Bind(h), ~Store(h) PROVE CoveredInv'
    <2>1. UNCHANGED <<mem, kind, cpc>>
      BY <1>9 DEF HandleStep, Plan, BindFails, Begin, BeginFails, Compare, Finish,
                    Record, Release, registry
    <2> QED BY <1>2, <2>1
  <1> QED
    BY <1>2, <1>3, <1>4, <1>5, <1>6, <1>7, <1>8, <1>9 DEF Next, ClientStep

\* Jump patches, rapid probes and installations share the code as ByteClaims
\* says (BytesHaveOneOwner): registration, reservation and rebinding take only
\* bytes nobody has claimed, whoever stores stores under its own claim, and a
\* reservation that is given back has left original bytes.
THEOREM OneOwner == Spec => BytesHaveOneOwner
<1>1. Init => Registry!Init /\ CoveredInv
  <2> SUFFICES ASSUME Init PROVE Registry!Init /\ CoveredInv
    OBVIOUS
  <2>1. Sites = {} /\ pending = {} /\ mem = [a \in Addr |-> "orig"]
    BY DEF Init, Sites
  <2>2. claims = [x \in Addr |-> {}]
    BY <2>1 DEF claims
  <2> QED BY <2>1, <2>2 DEF Registry!Init, CoveredInv
<1>2. IInv /\ IInv' /\ CoveredInv /\ [Next]_vars => CoveredInv'
  BY CoveredStep
<1>3. IInv /\ IInv' /\ ClaimsInv /\ ClaimsInv' /\ CoveredInv /\ [Next]_vars
        => [Registry!Next]_(Registry!vars)
  <2> SUFFICES ASSUME IInv, IInv', ClaimsInv, ClaimsInv', CoveredInv, [Next]_vars
               PROVE  Registry!Next \/ UNCHANGED Registry!vars
    OBVIOUS
  <2>1. ASSUME NEW x \in Addr, Registry!Take(x) \/ Registry!GiveBack(x) \/ Registry!Write(x)
        PROVE  Registry!Next
    BY <2>1 DEF Registry!Next
  <2>2. ASSUME NEW h \in Handles, HandleStep(h)
        PROVE  Registry!Next \/ UNCHANGED Registry!vars
    <3>1. CASE Bind(h)
      <4>1. site[h] \in Addr
        BY <3>1, BindChecked
      <4> QED BY <2>1, <3>1, <4>1, BindClaims
    <3>2. CASE Store(h)
      BY <2>1, <3>2, StoreClaims
    <3>3. CASE ~Bind(h) /\ ~Store(h)
      BY <2>2, <3>3, QuietClaims
    <3> QED BY <3>1, <3>2, <3>3
  <2>3. ASSUME NEW c \in Clients, ClientStep(c)
        PROVE  Registry!Next \/ UNCHANGED Registry!vars
    <3>1. CASE Reserve(c)
      BY <2>1, <3>1, ReserveClaims
    <3>2. CASE Cancel(c) \/ QuiescentRelease(c)
      BY <2>1, <3>2, ReleaseClaims
    <3>3. CASE RapidCommit(c)
      BY <3>3, CommitClaims
    <3>4. CASE \/ \E b \in {"orig", c} : RapidToggle(c, b)
               \/ QuiescentWrite(c) \/ QuiescentRetire(c)
      BY <2>1, <3>4, ClientStores
    <3> QED BY <2>3, <3>1, <3>2, <3>3, <3>4 DEF ClientStep
  <2>4. CASE UNCHANGED vars
    <3>1. UNCHANGED <<mem, kind, dispEnd, pending>>
      BY <2>4 DEF vars, registry
    <3> QED BY <3>1, ClaimsKept DEF Registry!vars
  <2> QED BY <2>2, <2>3, <2>4 DEF Next
<1> QED
  BY <1>1, <1>2, <1>3, ClaimsHold, Invariant, PTL
     DEF Spec, BytesHaveOneOwner, Registry!Spec
=============================================================================
