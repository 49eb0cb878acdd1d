----------------------------- MODULE ItemProofs -----------------------------
(***************************************************************************)
(* What the panel gets to show of an item.                                 *)
(*                                                                         *)
(* First its picture, name and id, whatever its properties and whatever    *)
(* name it registers with (PublishedItem: icon.rs, sni.rs, view.rs).  A    *)
(* list of pixmaps is finite, so the order by size and then by place has a *)
(* first and a last usable entry.  There is no induction over the list:    *)
(* of all entries, take one with the fewest entries before it.             *)
(*                                                                         *)
(* Then one node of its menu, patched (MenuNodes: menu.rs).                *)
(*                                                                         *)
(* Then the menu (MenuSync: item.rs, service.rs, model.rs).  A menu that   *)
(* changed is with a menu task, a call, the cache or an answer, in this    *)
(* order, until it is shown: MenuInv.                                      *)
(***************************************************************************)
EXTENDS PublishedItem, MenuNodes, MenuSync, TLAPS, FiniteSetTheorems,
        SequenceTheorems, WellFoundedInduction

Pixmap(data) == [width : Int, height : Int, data : Seq(data)]

-----------------------------------------------------------------------------
(* A strict total order on a finite set has a first element.               *)
LEMMA FirstOfFinite ==
  ASSUME NEW S, IsFiniteSet(S), S # {}, NEW R,
         \A n \in S : <<n, n>> \notin R,
         \A l, m, n \in S : <<l, m>> \in R /\ <<m, n>> \in R => <<l, n>> \in R,
         \A m, n \in S : m # n => <<m, n>> \in R \/ <<n, m>> \in R
  PROVE  \E n \in S : \A m \in S \ {n} : <<n, m>> \in R
<1> DEFINE Ahead(n) == {m \in S : <<m, n>> \in R}
           counts   == {Cardinality(Ahead(n)) : n \in S}
<1>1. ASSUME NEW n \in S PROVE IsFiniteSet(Ahead(n)) /\ Cardinality(Ahead(n)) \in Nat
  <2>1. Ahead(n) \in SUBSET S
    OBVIOUS
  <2> HIDE DEF Ahead
  <2>2. IsFiniteSet(Ahead(n))
    BY <2>1, FS_Subset
  <2> QED BY <2>2, FS_CardinalityType
<1>2. PICK least \in counts : \A k \in counts : ~ (<<k, least>> \in OpToRel(<, Nat))
  <2> HIDE DEF Ahead
  <2>1. counts \subseteq Nat /\ counts # {}
    BY <1>1
  <2> QED BY <2>1, NatLessThanWellFounded, WFMin
<1>3. PICK n \in S : least = Cardinality(Ahead(n))
  BY <1>2
<1>4. ASSUME NEW m \in Ahead(n) PROVE FALSE
  <2>1. Ahead(m) \in SUBSET Ahead(n) /\ m \in Ahead(n) /\ m \notin Ahead(m) /\ m \in S
    BY <1>4
  <2>2. Cardinality(Ahead(m)) < Cardinality(Ahead(n))
    <3>1. Ahead(m) # Ahead(n)
      BY <2>1
    <3>2. /\ IsFiniteSet(Ahead(n))
          /\ Cardinality(Ahead(m)) \in Nat /\ Cardinality(Ahead(n)) \in Nat
      BY <1>1, <2>1
    <3>3. Ahead(m) \in SUBSET Ahead(n)
      BY <2>1
    <3> HIDE DEF Ahead
    <3> QED BY <3>1, <3>2, <3>3, FS_Subset
  <2>3. <<Cardinality(Ahead(m)), least>> \in OpToRel(<, Nat)
    BY <1>1, <1>3, <2>1, <2>2 DEF OpToRel
  <2>4. m \in S
    BY <2>1
  <2> HIDE DEF Ahead
  <2>5. Cardinality(Ahead(m)) \in counts
    BY <2>4
  <2> QED BY <1>2, <2>3, <2>5
<1>5. \A m \in S \ {n} : <<n, m>> \in R
  BY <1>4
<1> QED BY <1>5

LEMMA EntriesAreSized ==
  ASSUME NEW data, NEW pixmaps \in Seq(Pixmap(data)), NEW n \in DOMAIN pixmaps
  PROVE  n \in Int /\ pixmaps[n].width \in Int /\ pixmaps[n].height \in Int
<1>1. n \in 1 .. Len(pixmaps)
  OBVIOUS
<1>2. pixmaps[n] \in Pixmap(data)
  <2> DEFINE P == Pixmap(data)
  <2>1. pixmaps \in Seq(P)
    OBVIOUS
  <2> HIDE DEF P
  <2>2. pixmaps[n] \in P
    BY <1>1, <2>1
  <2> QED BY <2>2 DEF P
<1> QED BY <1>1, <1>2 DEF Pixmap

(* Equal sizes are told apart by their places: the first of the smallest   *)
(* and the last of the largest exist, and there is one of each.            *)
LEMMA SmallestAndLargest ==
  ASSUME NEW data, NEW pixmaps \in Seq(Pixmap(data)), NEW S \in SUBSET DOMAIN pixmaps, S # {}
  PROVE  /\ \E n \in S : \A m \in S \ {n} :
              \/ SizeBelow(pixmaps[n], pixmaps[m])
              \/ ~SizeBelow(pixmaps[m], pixmaps[n]) /\ n < m
         /\ \E n \in S : \A m \in S \ {n} :
              \/ SizeBelow(pixmaps[m], pixmaps[n])
              \/ ~SizeBelow(pixmaps[n], pixmaps[m]) /\ m < n
<1> DEFINE Comes(n, m) == \/ SizeBelow(pixmaps[n], pixmaps[m])
                          \/ ~SizeBelow(pixmaps[m], pixmaps[n]) /\ n < m
           up   == {p \in S \X S : Comes(p[1], p[2])}
           down == {p \in S \X S : Comes(p[2], p[1])}
<1>1. IsFiniteSet(S)
  <2>1. DOMAIN pixmaps = 1 .. Len(pixmaps) /\ Len(pixmaps) \in Nat
    OBVIOUS
  <2>2. S \in SUBSET (1 .. Len(pixmaps))
    BY <2>1
  <2>3. IsFiniteSet(1 .. Len(pixmaps))
    BY <2>1, FS_Interval
  <2> QED BY <2>2, <2>3, FS_Subset
<1>2. \A n \in S : n \in Int /\ pixmaps[n].width \in Int /\ pixmaps[n].height \in Int
  BY EntriesAreSized
<1>3. \A m, n \in S : (<<m, n>> \in up <=> Comes(m, n)) /\ (<<m, n>> \in down <=> Comes(n, m))
  OBVIOUS
<1>4. \A n \in S : ~Comes(n, n)
  BY <1>2 DEF SizeBelow
<1>5. \A l, m, n \in S : Comes(l, m) /\ Comes(m, n) => Comes(l, n)
  BY <1>2 DEF SizeBelow
<1>6. \A m, n \in S : m # n => Comes(m, n) \/ Comes(n, m)
  BY <1>2 DEF SizeBelow
<1> HIDE DEF up, down, Comes
<1>7. \E n \in S : \A m \in S \ {n} : <<n, m>> \in up
  <2>1. /\ \A n \in S : <<n, n>> \notin up
        /\ \A l, m, n \in S : <<l, m>> \in up /\ <<m, n>> \in up => <<l, n>> \in up
        /\ \A m, n \in S : m # n => <<m, n>> \in up \/ <<n, m>> \in up
    BY <1>3, <1>4, <1>5, <1>6
  <2> QED BY <1>1, <2>1, FirstOfFinite
<1>8. \E n \in S : \A m \in S \ {n} : <<n, m>> \in down
  <2>1. /\ \A n \in S : <<n, n>> \notin down
        /\ \A l, m, n \in S : <<l, m>> \in down /\ <<m, n>> \in down => <<l, n>> \in down
        /\ \A m, n \in S : m # n => <<m, n>> \in down \/ <<n, m>> \in down
    BY <1>3, <1>4, <1>5, <1>6
  <2> QED BY <1>1, <2>1, FirstOfFinite
<1> QED BY <1>3, <1>7, <1>8 DEF Comes

-----------------------------------------------------------------------------
(* Exactly one pixmap is picked whenever any is usable, and none of the    *)
(* others is fitter: smaller and still large enough in both dimensions, or *)
(* larger when none is large enough (icon.rs pick_best).                   *)
THEOREM PickedIsFittest ==
  ASSUME NEW data, NEW pixmaps \in Seq(Pixmap(data)), NEW target \in Int
  PROVE  IF Usable(pixmaps) = {} THEN PickBest(pixmaps, target) = {}
         ELSE \E n \in Usable(pixmaps) :
                /\ PickBest(pixmaps, target) = {n}
                /\ \A m \in Usable(pixmaps) : ~Fitter(pixmaps[m], pixmaps[n], target)
<1> DEFINE usable == Usable(pixmaps)
           enough == {n \in usable : Covers(pixmaps[n], target)}
           Earliest(n) == \A m \in enough \ {n} :
                         \/ SizeBelow(pixmaps[n], pixmaps[m])
                         \/ ~SizeBelow(pixmaps[m], pixmaps[n]) /\ n < m
           Latest(n) == \A m \in usable \ {n} :
                         \/ SizeBelow(pixmaps[m], pixmaps[n])
                         \/ ~SizeBelow(pixmaps[n], pixmaps[m]) /\ m < n
<1>1. PickBest(pixmaps, target) =
        IF enough # {} THEN {CHOOSE n \in enough : Earliest(n)} ELSE {n \in usable : Latest(n)}
  BY DEF PickBest, Usable, Covers
<1>2. usable \subseteq DOMAIN pixmaps /\ enough \subseteq usable
  BY DEF Usable
<1>3. \A n \in usable : n \in Int /\ pixmaps[n].width \in Int /\ pixmaps[n].height \in Int
  BY <1>2, EntriesAreSized
<1>4. CASE enough # {}
  <2>1. PICK n \in enough : PickBest(pixmaps, target) = {n} /\ Earliest(n)
    <3>1. \E n \in enough : Earliest(n)
      BY <1>2, <1>4, SmallestAndLargest
    <3> QED BY <1>1, <1>4, <3>1
  <2>2. ASSUME NEW m \in usable, Fitter(pixmaps[m], pixmaps[n], target) PROVE FALSE
    <3>1. m \in enough /\ m # n /\ Within(pixmaps[m], pixmaps[n])
      BY <2>2 DEF Fitter, Within
    <3>2. SizeBelow(pixmaps[m], pixmaps[n]) /\ ~SizeBelow(pixmaps[n], pixmaps[m])
      BY <1>3, <3>1 DEF Within, SizeBelow
    <3> QED BY <2>1, <3>1, <3>2
  <2> QED BY <1>2, <2>1, <2>2
<1>5. CASE enough = {} /\ usable # {}
  <2>1. PICK n \in usable : Latest(n)
    BY <1>2, <1>5, SmallestAndLargest
  <2>2. PickBest(pixmaps, target) = {n}
    <3>1. ASSUME NEW m \in usable, Latest(m) PROVE m = n
      BY <1>3, <2>1, <3>1 DEF SizeBelow
    <3> QED BY <1>1, <1>5, <2>1, <3>1
  <2>3. ASSUME NEW m \in usable, Fitter(pixmaps[m], pixmaps[n], target) PROVE FALSE
    <3>1. m # n /\ Within(pixmaps[n], pixmaps[m])
      BY <1>5, <2>3 DEF Fitter, Within
    <3>2. SizeBelow(pixmaps[n], pixmaps[m]) /\ ~SizeBelow(pixmaps[m], pixmaps[n])
      BY <1>3, <3>1 DEF Within, SizeBelow
    <3> QED BY <2>1, <3>1, <3>2
  <2> QED BY <2>1, <2>2, <2>3
<1>6. CASE usable = {}
  BY <1>1, <1>6
<1> QED BY <1>4, <1>5, <1>6

-----------------------------------------------------------------------------
(* A pixel is an alpha and a colour.                                       *)
(* Whatever properties are decoded to: pixmaps of any size, with more or   *)
(* fewer pixels than they say, any texts.                                  *)
IsIcon(icon) == icon.pixmaps \in Seq(Pixmap(Colours))

IsProps(props) == IsIcon(props.icon) /\ IsIcon(props.overlay) /\ IsIcon(props.attention)

LEMMA ListsOfPixmaps ==
  ASSUME NEW pixmaps \in Seq(Pixmap(Colours)), NEW n \in DOMAIN pixmaps
  PROVE  /\ pixmaps[n].width \in Int /\ pixmaps[n].height \in Int
         /\ pixmaps[n].data \in Seq(Colours)
<1>1. n \in 1 .. Len(pixmaps)
  OBVIOUS
<1> DEFINE P == Pixmap(Colours)
<1>2. pixmaps \in Seq(P)
  OBVIOUS
<1> HIDE DEF P
<1>3. pixmaps[n] \in P
  BY <1>1, <1>2
<1> QED BY <1>3 DEF P, Pixmap

(* What ResolveIcon draws: the pixmap picked for the icon, with the one    *)
(* picked for the overlay on it, if there is one.                          *)
PickedAreDrawn(base, overlay, target) ==
  LET drawn == ResolveIcon(base, overlay, target) IN
  \/ /\ Usable(base.pixmaps) = {} /\ PickBest(base.pixmaps, target) = {}
     /\ drawn.name = base.name /\ drawn.picture = {}
  \/ \E n \in Usable(base.pixmaps) :
       /\ PickBest(base.pixmaps, target) = {n}
       /\ \A m \in Usable(base.pixmaps) : ~Fitter(base.pixmaps[m], base.pixmaps[n], target)
       /\ \/ PickBest(overlay.pixmaps, target) = {} /\ drawn.picture = {base.pixmaps[n]}
          \/ \E m \in Usable(overlay.pixmaps) :
               /\ PickBest(overlay.pixmaps, target) = {m}
               /\ drawn.picture = {Composite(base.pixmaps[n], overlay.pixmaps[m])}

LEMMA DrawnFromPicked ==
  ASSUME NEW base, IsIcon(base), NEW overlay, IsIcon(overlay), NEW target \in Int
  PROVE  PickedAreDrawn(base, overlay, target)
<1> DEFINE drawn == ResolveIcon(base, overlay, target)
           pickedB == PickBest(base.pixmaps, target)
           pickedO == PickBest(overlay.pixmaps, target)
           B == base.pixmaps
           O == overlay.pixmaps
           BestB == {B[n] : n \in pickedB}
           BestO == {O[n] : n \in pickedO}
<1>1. IF Usable(B) = {} THEN pickedB = {}
      ELSE \E n \in Usable(B) :
             pickedB = {n} /\ \A m \in Usable(B) : ~Fitter(B[m], B[n], target)
  BY PickedIsFittest DEF IsIcon
<1>2. IF Usable(O) = {} THEN pickedO = {} ELSE \E m \in Usable(O) : pickedO = {m}
  <2>1. IF Usable(O) = {} THEN pickedO = {}
        ELSE \E n \in Usable(O) :
               pickedO = {n} /\ \A m \in Usable(O) : ~Fitter(O[m], O[n], target)
    BY PickedIsFittest DEF IsIcon
  <2> QED BY <2>1
<1>3. /\ BestB = {} => drawn.name = base.name /\ drawn.picture = {}
      /\ BestB # {} => drawn.picture =
           IF BestO = {} THEN BestB ELSE UNION {{Composite(p, q) : q \in BestO} : p \in BestB}
  BY DEF ResolveIcon
<1> HIDE DEF drawn, pickedB, pickedO, B, O
<1>4. CASE Usable(B) = {}
  <2>1. pickedB = {} /\ drawn.name = base.name /\ drawn.picture = {}
    BY <1>1, <1>3, <1>4
  <2> QED BY <1>4, <2>1 DEF PickedAreDrawn, drawn, pickedB, B
<1>5. CASE Usable(B) # {}
  <2>1. PICK n \in Usable(B) :
          pickedB = {n} /\ \A m \in Usable(B) : ~Fitter(B[m], B[n], target)
    BY <1>1, <1>5
  <2>2. BestB = {B[n]}
    BY <2>1
  <2>3. \/ pickedO = {} /\ drawn.picture = {B[n]}
        \/ \E m \in Usable(O) : pickedO = {m} /\ drawn.picture = {Composite(B[n], O[m])}
    <3>1. CASE pickedO = {}
      BY <1>3, <2>2, <3>1
    <3>2. ASSUME NEW m \in Usable(O), pickedO = {m}
          PROVE  drawn.picture = {Composite(B[n], O[m])}
      <4>1. BestO = {O[m]}
        BY <3>2
      <4>2. {{Composite(p, q) : q \in BestO} : p \in BestB} = {{Composite(B[n], O[m])}}
        BY <2>2, <4>1
      <4> QED BY <1>3, <2>2, <4>1, <4>2
    <3> QED BY <1>2, <3>1, <3>2
  <2> QED BY <2>1, <2>3 DEF PickedAreDrawn, drawn, pickedB, pickedO, B, O
<1> QED BY <1>4, <1>5

LEMMA EffectiveIsIcon ==
  ASSUME NEW props, IsProps(props)
  PROVE  IsIcon(EffectiveIcon(props)) /\ IsIcon(props.overlay)
  BY DEF IsProps, EffectiveIcon

(* An application that has an icon, by name or by pixels, for its state or *)
(* in general, is shown with one, for any lists of pixmaps and sizes       *)
(* (sni.rs effective_icon, view.rs resolve).                               *)
THEOREM IconsAreKept ==
  ASSUME NEW props, IsProps(props), NEW target \in Int
  PROVE  IconIsKept(props, target)
<1> DEFINE base == EffectiveIcon(props)
           drawn == ResolveIcon(base, props.overlay, target)
<1>1. ItemView("", props, target).icon = drawn
  BY DEF ItemView
<1>2. IsIcon(base) /\ IsIcon(props.overlay)
  BY EffectiveIsIcon
<1> HIDE DEF base
<1>3. \/ Usable(base.pixmaps) = {} /\ drawn.name = base.name
      \/ drawn.picture # {}
  <2>1. PickedAreDrawn(base, props.overlay, target)
    BY <1>2, DrawnFromPicked
  <2> QED BY <2>1 DEF PickedAreDrawn
<1> HIDE DEF drawn
<1>4. Usable(base.pixmaps) = {} /\ base.name = "" => IconIsEmpty(base)
  BY DEF Usable, IconIsEmpty
<1>5. IconIsEmpty(base) =>
        IconIsEmpty(props.icon) /\ (props.status # "NeedsAttention" \/ IconIsEmpty(props.attention))
  BY DEF base, EffectiveIcon
<1> QED BY <1>1, <1>3, <1>4, <1>5 DEF IconIsKept

-----------------------------------------------------------------------------
(* What is put into a picture at a place is found there.                   *)
LEMMA PlaceInRows ==
  ASSUME NEW w \in Nat, NEW h \in Nat, NEW x \in 0 .. w - 1, NEW y \in 0 .. h - 1
  PROVE  /\ y * w + x + 1 \in 1 .. w * h
         /\ (y * w + x) % w = x
         /\ (y * w + x) \div w = y
<1> DEFINE n == y * w + x
           q == n \div w
           r == n % w
<1>1. w > 0 /\ x >= 0 /\ x < w /\ y >= 0 /\ y + 1 <= h /\ w \in Int /\ h \in Int
        /\ x \in Int /\ y \in Int
  OBVIOUS
<1>2. y * w \in Int /\ y * w >= 0
  BY <1>1
<1>3. n \in Int /\ n >= 0
  BY <1>1, <1>2
<1>4. y * w + w <= w * h
  <2>1. (y + 1) * w <= h * w
    BY <1>1
  <2> QED BY <1>1, <2>1
<1>5. q \in Int /\ r \in Int /\ n = q * w + r /\ 0 <= r /\ r < w
  <2> HIDE DEF n
  <2> QED BY <1>1, <1>3
<1>6. q = y
  <2>1. CASE q >= y + 1
    <3>1. q * w >= (y + 1) * w
      BY <1>1, <1>5, <2>1
    <3>2. (y + 1) * w = y * w + w
      BY <1>1
    <3> HIDE DEF q, r
    <3> QED BY <1>1, <1>2, <1>5, <3>1, <3>2
  <2>2. CASE q + 1 <= y
    <3>1. (q + 1) * w <= y * w
      BY <1>1, <1>5, <2>2
    <3>2. (q + 1) * w = q * w + w
      BY <1>1, <1>5
    <3> HIDE DEF q, r
    <3>3. q * w \in Int
      BY <1>1, <1>5
    <3> QED BY <1>1, <1>2, <1>5, <3>1, <3>2, <3>3
  <2> QED BY <1>1, <1>5, <2>1, <2>2
<1>7. r = x
  <2> HIDE DEF q, r
  <2> QED BY <1>1, <1>2, <1>5, <1>6
<1>8. n + 1 \in 1 .. w * h
  <2>1. w * h \in Int
    BY <1>1
  <2> QED BY <1>1, <1>2, <1>4, <2>1
<1> QED BY <1>6, <1>7, <1>8

(* One pixmap on another: where the upper one is, both are blended, and    *)
(* elsewhere the lower one is left as it was.                              *)
LEMMA CompositeSize ==
  ASSUME NEW base, NEW overlay, IsValid(base), IsValid(overlay)
  PROVE  /\ Composite(base, overlay).width = base.width
         /\ Composite(base, overlay).height = base.height
  BY DEF Composite, Picture

LEMMA CompositePixels ==
  ASSUME NEW base \in Pixmap(Colours), NEW overlay \in Pixmap(Colours),
         IsValid(base), IsValid(overlay),
         overlay.width <= base.width, overlay.height <= base.height,
         NEW x \in 0 .. base.width - 1, NEW y \in 0 .. base.height - 1
  PROVE  LET u == x - (base.width - overlay.width) \div 2
             v == y - (base.height - overlay.height) \div 2
         IN  Pixel(Composite(base, overlay), x, y) =
               IF Inside(overlay, u, v) THEN BlendOver(Pixel(base, x, y), Pixel(overlay, u, v))
                                        ELSE Pixel(base, x, y)
<1> DEFINE left == (base.width - overlay.width) \div 2
           top  == (base.height - overlay.height) \div 2
           At(a, b) == IF Inside(overlay, a - left, b - top)
                         THEN BlendOver(Pixel(base, a, b), Pixel(overlay, a - left, b - top))
                         ELSE Pixel(base, a, b)
<1>1. Composite(base, overlay) = Picture(base.width, base.height, At)
  BY DEF Composite, Picture
<1>2. base.width \in Nat /\ base.height \in Nat
  BY DEF Pixmap, IsValid
<1> DEFINE w == base.width
           cells == 1 .. w * base.height
           k == y * w + x + 1
           pic == Picture(w, base.height, At)
<1>3. k \in cells /\ (k - 1) % w = x /\ (k - 1) \div w = y
  <2>1. /\ k \in cells
        /\ (y * w + x) % w = x /\ (y * w + x) \div w = y
    <3> HIDE DEF At
    <3> QED BY <1>2, PlaceInRows
  <2>2. k - 1 = y * w + x
    BY <1>2
  <2> QED BY <2>1, <2>2
<1>4. Pixel(pic, x, y) = At((k - 1) % w, (k - 1) \div w)
  <2>1. pic.width = w /\ pic.data = [m \in cells |-> At((m - 1) % w, (m - 1) \div w)]
    BY DEF Picture
  <2> HIDE DEF pic
  <2>2. Pixel(pic, x, y) = pic.data[k]
    BY <2>1 DEF Pixel
  <2>3. \A m \in cells : pic.data[m] = At((m - 1) % w, (m - 1) \div w)
    BY <2>1, Zenon
  <2> HIDE DEF At, cells, k, w
  <2> QED BY <1>3, <2>2, <2>3, Zenon
<1>5. At((k - 1) % w, (k - 1) \div w) = At(x, y)
  <2> HIDE DEF k, At, w
  <2> QED BY <1>3, Zenon
<1> QED BY <1>1, <1>4, <1>5

(* An opaque pixel hides what is below it, a transparent one shows it.     *)
LEMMA BlendOfEnds ==
  ASSUME NEW dst \in Colours, NEW src \in Colours
  PROVE  /\ src[1] = 255 => BlendOver(dst, src) = src
         /\ src[1] = 0 => BlendOver(dst, src) = dst
<1> DEFINE a == src[1]
           c == src[2]
           b == dst[1]
           d == dst[2]
<1>1. a \in 0 .. 255 /\ c \in 0 .. 255 /\ src = <<a, c>>
  BY DEF Colours
<1>2. b \in 0 .. 255 /\ d \in 0 .. 255 /\ dst = <<b, d>>
  BY DEF Colours
<1>3. ASSUME a = 255 PROVE BlendOver(dst, src) = src
  <2>1. BlendOver(dst, src) =
          << Rounded(a * 255 + b * (255 - a), 255),
             Rounded(c * a * 255 + d * b * (255 - a), a * 255 + b * (255 - a)) >>
    BY <1>1, <1>2, <1>3 DEF BlendOver
  <2> HIDE DEF a, b, c, d
  <2>2. a * 255 + b * (255 - a) = 65025
    BY <1>2, <1>3
  <2>3. c * a * 255 + d * b * (255 - a) = c * 65025
    <3> DEFINE e == d * b
    <3>1. e \in Int
      BY <1>2
    <3> HIDE DEF e
    <3>2. e * (255 - a) = 0 /\ c * a * 255 = c * 65025
      BY <1>1, <1>3, <3>1
    <3> QED BY <1>1, <3>2 DEF e
  <2>4. Rounded(65025, 255) = 255
    BY DEF Rounded
  <2>5. Rounded(c * 65025, 65025) = c
    <3>1. 2 * (c * 65025) + 65025 = c * 130050 + 65025 /\ 2 * 65025 = 130050
      BY <1>1
    <3>2. (c * 130050 + 65025) \div 130050 = c
      BY <1>1
    <3> QED BY <3>1, <3>2 DEF Rounded
  <2> QED BY <1>1, <1>3, <2>1, <2>2, <2>3, <2>4, <2>5
<1>4. src[1] = 0 => BlendOver(dst, src) = dst
  BY DEF BlendOver
<1> QED BY <1>1, <1>3, <1>4

LEMMA PixelsAreColours ==
  ASSUME NEW p \in Pixmap(Colours), IsValid(p), NEW x \in Int, NEW y \in Int, Inside(p, x, y)
  PROVE  Pixel(p, x, y) \in Colours
<1>1. p.width \in Nat /\ p.height \in Nat /\ x \in 0 .. p.width - 1 /\ y \in 0 .. p.height - 1
        /\ p.data \in Seq(Colours) /\ Len(p.data) = p.width * p.height
  BY DEF Pixmap, IsValid, Inside
<1> DEFINE w == p.width
           h == p.height
           k == y * w + x + 1
<1>2. k \in 1 .. w * h
  <2> HIDE DEF w, h
  <2> QED BY <1>1, PlaceInRows DEF w, h
<1>3. Pixel(p, x, y) = p.data[k]
  BY DEF Pixel
<1>4. k \in 1 .. Len(p.data)
  BY <1>1, <1>2
<1> HIDE DEF k
<1> QED BY <1>1, <1>3, <1>4

(* A badge is drawn over the picked picture without changing its size; it  *)
(* sits in the middle when it fits, the picture is untouched around it,    *)
(* and where the badge is opaque it alone is seen (icon.rs composite).     *)
LEMMA CompositesKeepBadges ==
  ASSUME NEW icon \in Pixmap(Colours), NEW badge \in Pixmap(Colours),
         IsValid(icon), IsValid(badge)
  PROVE  BadgeStaysInside(icon, badge, Composite(icon, badge))
<1> DEFINE image == Composite(icon, badge)
           BadgeX(x) == x - (icon.width - badge.width) \div 2
           BadgeY(y) == y - (icon.height - badge.height) \div 2
<1>1. image.width = icon.width /\ image.height = icon.height
  BY CompositeSize
<1>2. icon.width \in Int /\ icon.height \in Int /\ badge.width \in Int /\ badge.height \in Int
  BY DEF Pixmap
<1>3. ASSUME icon.width - badge.width >= 0, icon.height - badge.height >= 0,
             NEW x \in 0 .. icon.width - 1, NEW y \in 0 .. icon.height - 1
      PROVE  IF Inside(badge, BadgeX(x), BadgeY(y))
               THEN /\ Pixel(badge, BadgeX(x), BadgeY(y))[1] = 255 =>
                         Pixel(image, x, y) = Pixel(badge, BadgeX(x), BadgeY(y))
                    /\ Pixel(badge, BadgeX(x), BadgeY(y))[1] = 0 =>
                         Pixel(image, x, y) = Pixel(icon, x, y)
               ELSE Pixel(image, x, y) = Pixel(icon, x, y)
  <2> DEFINE u == BadgeX(x)
             v == BadgeY(y)
  <2>1. Pixel(image, x, y) =
          IF Inside(badge, u, v) THEN BlendOver(Pixel(icon, x, y), Pixel(badge, u, v))
                                 ELSE Pixel(icon, x, y)
    <3>1. badge.width <= icon.width /\ badge.height <= icon.height
      BY <1>2, <1>3
    <3> QED BY <3>1, CompositePixels
  <2>2. u \in Int /\ v \in Int /\ x \in Int /\ y \in Int /\ Inside(icon, x, y)
    BY <1>2 DEF Inside
  <2> HIDE DEF u, v, image
  <2>3. CASE Inside(badge, u, v)
    <3>1. Pixel(icon, x, y) \in Colours /\ Pixel(badge, u, v) \in Colours
      BY <2>2, <2>3, PixelsAreColours
    <3>2. Pixel(image, x, y) = BlendOver(Pixel(icon, x, y), Pixel(badge, u, v))
      BY <2>1, <2>3
    <3>3. /\ Pixel(badge, u, v)[1] = 255 => Pixel(image, x, y) = Pixel(badge, u, v)
          /\ Pixel(badge, u, v)[1] = 0 => Pixel(image, x, y) = Pixel(icon, x, y)
      BY <3>1, <3>2, BlendOfEnds
    <3> QED BY <2>3, <3>3 DEF u, v
  <2>4. CASE ~Inside(badge, u, v)
    <3>1. Pixel(image, x, y) = Pixel(icon, x, y)
      BY <2>1, <2>4
    <3> QED BY <2>4, <3>1 DEF u, v
  <2> QED BY <2>3, <2>4
<1> HIDE DEF image
<1> QED BY <1>1, <1>3 DEF BadgeStaysInside, image

(* The picture of an item has the size of the fittest pixmap of those the  *)
(* application sent for the state it is in, with a badge or without        *)
(* (icon.rs pick_best, view.rs resolve).                                   *)
THEOREM FittestIsDrawn ==
  ASSUME NEW props, IsProps(props), NEW target \in Int
  PROVE  FittestIsShown(props, target)
<1> DEFINE base == EffectiveIcon(props)
           overlay == props.overlay
           drawn == ResolveIcon(base, overlay, target)
           B == base.pixmaps
           O == overlay.pixmaps
<1>1. ItemView("", props, target).icon = drawn
  BY DEF ItemView
<1>2. IsIcon(base) /\ IsIcon(overlay)
  BY EffectiveIsIcon
<1> HIDE DEF base, overlay
<1>3. \/ drawn.picture = {}
      \/ \E n \in Usable(B) :
           /\ \A m \in Usable(B) : ~Fitter(B[m], B[n], target)
           /\ \/ drawn.picture = {B[n]}
              \/ \E m \in Usable(O) : drawn.picture = {Composite(B[n], O[m])}
  <2>1. PickedAreDrawn(base, overlay, target)
    BY <1>2, DrawnFromPicked
  <2> QED BY <2>1 DEF PickedAreDrawn
<1> HIDE DEF drawn
<1>4. \A n \in Usable(B), m \in Usable(O) :
        /\ Composite(B[n], O[m]).width = B[n].width
        /\ Composite(B[n], O[m]).height = B[n].height
  BY CompositeSize DEF Usable
<1> HIDE DEF B, O
<1>5. \A p \in drawn.picture : \E n \in Usable(B) :
        /\ p.width = B[n].width /\ p.height = B[n].height
        /\ \A m \in Usable(B) : ~Fitter(B[m], B[n], target)
  BY <1>3, <1>4
<1> QED BY <1>1, <1>5 DEF FittestIsShown, base, B

(* A badge never spills over the icon it marks, whatever the sizes of both *)
(* (icon.rs composite, view.rs resolve).                                   *)
THEOREM BadgesAreDrawn ==
  ASSUME NEW props, IsProps(props), NEW target \in Int
  PROVE  BadgeIsDrawn(props, target)
<1> DEFINE base == EffectiveIcon(props)
           overlay == props.overlay
           drawn == ResolveIcon(base, overlay, target)
           B == base.pixmaps
           O == overlay.pixmaps
<1>1. ItemView("", props, target).icon = drawn
  BY DEF ItemView
<1>2. IsIcon(base) /\ IsIcon(overlay)
  BY EffectiveIsIcon
<1> HIDE DEF base, overlay
<1>3. \/ PickBest(B, target) = {}
      \/ \E n \in Usable(B) :
           /\ PickBest(B, target) = {n}
           /\ \/ PickBest(O, target) = {}
              \/ \E m \in Usable(O) :
                   /\ PickBest(O, target) = {m}
                   /\ drawn.picture = {Composite(B[n], O[m])}
  <2>1. PickedAreDrawn(base, overlay, target)
    BY <1>2, DrawnFromPicked
  <2> QED BY <2>1 DEF PickedAreDrawn
<1> HIDE DEF drawn
<1>4. \A n \in Usable(B), m \in Usable(O) :
        BadgeStaysInside(B[n], O[m], Composite(B[n], O[m]))
  <2>1. \A list \in Seq(Pixmap(Colours)) : \A n \in Usable(list) :
          IsValid(list[n]) /\ list[n] \in Pixmap(Colours)
    <3> SUFFICES ASSUME NEW list \in Seq(Pixmap(Colours)), NEW n \in Usable(list)
                 PROVE  IsValid(list[n]) /\ list[n] \in Pixmap(Colours)
      OBVIOUS
    <3> DEFINE P == Pixmap(Colours)
    <3>1. list \in Seq(P)
      OBVIOUS
    <3> HIDE DEF P
    <3>2. list[n] \in P
      BY <3>1 DEF Usable
    <3> QED BY <3>2 DEF P, Usable
  <2> QED BY <1>2, <2>1, CompositesKeepBadges DEF IsIcon
<1> HIDE DEF B, O
<1>5. \A n \in PickBest(B, target), m \in PickBest(O, target), image \in drawn.picture :
        BadgeStaysInside(B[n], O[m], image)
  BY <1>3, <1>4
<1> QED BY <1>1, <1>5 DEF BadgeIsDrawn, base, overlay, B, O

-----------------------------------------------------------------------------
(* A number among finitely many that is the smallest.                      *)
LEMMA MinOfSome ==
  ASSUME NEW S \in SUBSET Nat, S # {}
  PROVE  Min(S) \in S /\ \A n \in S : Min(S) <= n
<1>1. PICK least \in S : \A n \in S : ~ (<<n, least>> \in OpToRel(<, Nat))
  BY NatLessThanWellFounded, WFMin
<1>2. \A n \in S : least <= n
  <2> SUFFICES ASSUME NEW n \in S, n < least PROVE FALSE
    OBVIOUS
  <2> QED BY <1>1 DEF OpToRel
<1> QED BY <1>2 DEF Min

(* A screen reader has something to say of every item that has a title, a  *)
(* label, a description or an id, in any state (sni.rs accessible_name).   *)
THEOREM NamesAreSpoken ==
  ASSUME NEW props
  PROVE  HasName(props)
<1> DEFINE attention == IF props.status = "NeedsAttention"
                          THEN props.attention_accessible_desc ELSE ""
           names == <<attention, props.icon_accessible_desc, props.label, props.title, props.id>>
           said  == {n \in DOMAIN names : names[n] # ""}
<1>1. ItemView("", props, 0).accessible_name
        = IF said = {} THEN "" ELSE names[Min(said)]
  BY DEF ItemView, AccessibleName
<1>2. said \in SUBSET Nat
  <2>1. DOMAIN names = 1 .. 5
    OBVIOUS
  <2>2. \A n \in said : n \in 1 .. 5
    BY <2>1
  <2> HIDE DEF said
  <2> QED BY <2>2
<1>3. said # {} => names[Min(said)] # ""
  <2>1. said # {} => Min(said) \in said
    <3> HIDE DEF said
    <3> QED BY <1>2, MinOfSome
  <2> QED BY <2>1
<1>4. props.id # "" \/ props.title # "" \/ props.label # "" \/ props.icon_accessible_desc # ""
        => said # {}
  <2>1. /\ names[5] = props.id /\ names[4] = props.title /\ names[3] = props.label
        /\ names[2] = props.icon_accessible_desc
        /\ {2, 3, 4, 5} \subseteq DOMAIN names
    OBVIOUS
  <2> HIDE DEF names
  <2> QED BY <2>1
<1> HIDE DEF said, names
<1> QED BY <1>1, <1>3, <1>4 DEF HasName

LEMMA MinIsKnown ==
  ASSUME NEW S \in SUBSET Nat, NEW k \in S, \A n \in S : k <= n
  PROVE  Min(S) = k
<1> DEFINE m == Min(S)
<1>1. m \in S /\ m <= k
  BY MinOfSome
<1> HIDE DEF m
<1>2. m \in Nat /\ k \in Nat /\ k <= m
  BY <1>1
<1>3. m = k
  BY <1>1, <1>2
<1> QED BY <1>3 DEF m

LEMMA MaxOfSome ==
  ASSUME NEW k \in Nat, NEW S \in SUBSET (1 .. k), S # {}
  PROVE  Max(S) \in S /\ \A n \in S : Max(S) >= n
<1> DEFINE rest == {k - n : n \in S}
<1>1. rest \in SUBSET Nat
  OBVIOUS
<1>a. rest # {}
  OBVIOUS
<1>2. Min(rest) \in rest /\ \A m \in rest : Min(rest) <= m
  <2> HIDE DEF rest
  <2> QED BY <1>1, <1>a, MinOfSome
<1>3. PICK most \in S : Min(rest) = k - most
  BY <1>2
<1>4. \A n \in S : most >= n
  <2> SUFFICES ASSUME NEW n \in S PROVE most >= n
    OBVIOUS
  <2>1. k - n \in rest
    OBVIOUS
  <2> HIDE DEF rest
  <2>2. k - most <= k - n
    BY <1>2, <1>3, <2>1
  <2> QED BY <2>2
<1> HIDE DEF rest
<1>5. \E x \in S : \A y \in S : x >= y
  BY <1>4
<1> QED BY <1>5 DEF Max

-----------------------------------------------------------------------------
(* Service names and paths, of any parts.                                  *)
SolidEnds(text) == text # <<>> => text[1] # " " /\ text[Len(text)] # " "

EndsSolid(text) == text # <<>> => text[Len(text)] # " "

(* More than a slash, with no second one behind it.                        *)
IsPath(addr) == /\ Len(addr) >= 2 /\ addr[1] = "/" /\ addr[2] # "/"
                /\ addr[Len(addr)] # " "

HasParts(W) == "/" \in W /\ "StatusNotifierItem" \in W

LEMMA Span ==
  ASSUME NEW W, NEW text \in Seq(W), NEW m \in 1 .. Len(text), NEW n \in m .. Len(text)
  PROVE  /\ SubSeq(text, m, n) \in Seq(W)
         /\ Len(SubSeq(text, m, n)) = n - m + 1
         /\ \A i \in 1 .. n - m + 1 : SubSeq(text, m, n)[i] = text[m + i - 1]
         /\ SubSeq(text, m, n)[1] = text[m]
         /\ SubSeq(text, m, n)[n - m + 1] = text[n]
<1>1. Len(text) \in Nat
  BY LenProperties
<1>2. \A i \in m .. n : text[i] \in W
  BY <1>1, ElementOfSeq
<1>3. /\ SubSeq(text, m, n) \in Seq(W)
      /\ Len(SubSeq(text, m, n)) = n - m + 1
      /\ \A i \in 1 .. n - m + 1 : SubSeq(text, m, n)[i] = text[m + i - 1]
  BY <1>1, <1>2, SubSeqProperties
<1>4. 1 \in 1 .. n - m + 1 /\ m + 1 - 1 = m
  BY <1>1
<1>5. n - m + 1 \in 1 .. n - m + 1 /\ m + (n - m + 1) - 1 = n
  BY <1>1
<1> QED BY <1>3, <1>4, <1>5

LEMMA Trimming ==
  ASSUME NEW W, NEW text \in Seq(W)
  PROVE  /\ Trimmed(text) \in Seq(W) /\ SolidEnds(Trimmed(text))
         /\ SolidEnds(text) => Trimmed(text) = text
<1> DEFINE solid == {n \in DOMAIN text : text[n] # " "}
           first == Min(solid)
           final == Max(solid)
<1>1. Len(text) \in Nat /\ solid \in SUBSET (1 .. Len(text))
  BY LenProperties
<1>2. CASE solid = {}
  <2>1. Trimmed(text) = <<>>
    BY <1>2 DEF Trimmed
  <2>2. text # <<>> => text[1] = " "
    <3>1. text # <<>> => 1 \in DOMAIN text
      BY EmptySeq, LenProperties
    <3> QED BY <1>2, <3>1
  <2>3. <<>> \in Seq(W)
    BY EmptySeq
  <2> QED BY <2>1, <2>2, <2>3, Zenon DEF SolidEnds
<1>3. CASE solid # {}
  <2>1. /\ first \in solid /\ \A n \in solid : first <= n
        /\ final \in solid /\ \A n \in solid : final >= n
    <3> HIDE DEF solid
    <3>1. solid \in SUBSET Nat
      BY <1>1
    <3> QED BY <1>1, <1>3, <3>1, MinOfSome, MaxOfSome
  <2>2. Trimmed(text) = SubSeq(text, first, final)
    BY <1>3 DEF Trimmed
  <2>3. text[first] # " " /\ text[final] # " "
    BY <2>1
  <2>4. \A n \in 1 .. Len(text) : text[n] # " " => n \in solid
    BY LenProperties
  <2> HIDE DEF first, final, solid
  <2>5. first \in 1 .. Len(text) /\ final \in first .. Len(text)
    BY <1>1, <2>1
  <2>6. /\ SubSeq(text, first, final) \in Seq(W)
        /\ Len(SubSeq(text, first, final)) = final - first + 1
        /\ SubSeq(text, first, final)[1] = text[first]
        /\ SubSeq(text, first, final)[final - first + 1] = text[final]
    BY <2>5, Span
  <2>7. ASSUME text # <<>>, text[1] # " ", text[Len(text)] # " "
        PROVE  SubSeq(text, first, final) = text
    <3>1. 1 \in 1 .. Len(text) /\ Len(text) \in 1 .. Len(text)
      BY <1>1, <2>5
    <3>2. 1 \in solid /\ Len(text) \in solid
      BY <2>4, <2>7, <3>1, Zenon
    <3>3. first = 1 /\ final = Len(text)
      BY <1>1, <2>1, <2>5, <3>2
    <3> QED BY <3>3, SubSeqFull
  <2>8. SolidEnds(text) => SubSeq(text, first, final) = text
    <3>1. text # <<>>
      BY <1>1, <2>5, EmptySeq
    <3> QED BY <2>7, <3>1, Zenon DEF SolidEnds
  <2>9. SolidEnds(SubSeq(text, first, final))
    BY <2>3, <2>6, Zenon DEF SolidEnds
  <2> QED BY <2>2, <2>6, <2>8, <2>9, Zenon
<1> QED BY <1>2, <1>3

(* A path that was normalised starts with one slash and keeps its end.     *)
LEMMA Normalizing ==
  ASSUME NEW W, HasParts(W), NEW addr \in Seq(W), EndsSolid(addr)
  PROVE  /\ NormalizePath(addr) \in Seq(W)
         /\ NormalizePath(addr) # <<"/">> => IsPath(NormalizePath(addr))
<1> DEFINE solid == {n \in DOMAIN addr : addr[n] # "/"}
           start == Min(solid)
           rest == SubSeq(addr, start, Len(addr))
<1>1. Len(addr) \in Nat /\ solid \in SUBSET (1 .. Len(addr))
  BY LenProperties
<1>2. CASE addr = <<>>
  <2>1. NormalizePath(addr) = <<"/", "StatusNotifierItem">>
    BY <1>2 DEF NormalizePath, DefaultItemPath
  <2>2. <<"/", "StatusNotifierItem">> \in Seq(W)
    BY DEF HasParts
  <2>3. IsPath(<<"/", "StatusNotifierItem">>)
    BY DEF IsPath
  <2> QED BY <2>1, <2>2, <2>3, Zenon
<1>3. CASE addr # <<>> /\ solid = {}
  <2>1. NormalizePath(addr) = <<"/">> \o SubSeq(addr, Len(addr) + 1, Len(addr))
    BY <1>3 DEF NormalizePath
  <2>2. SubSeq(addr, Len(addr) + 1, Len(addr)) = <<>>
    BY <1>1, SubSeqEmpty
  <2>3. <<"/">> \in Seq(W)
    BY DEF HasParts
  <2>4. <<"/">> \o <<>> = <<"/">>
    BY <2>3, ConcatEmptySeq
  <2> QED BY <2>1, <2>2, <2>3, <2>4, Zenon
<1>4. CASE addr # <<>> /\ solid # {}
  <2>1. start \in solid
    <3> HIDE DEF solid
    <3>1. solid \in SUBSET Nat
      BY <1>1
    <3> QED BY <1>4, <3>1, MinOfSome
  <2>2. NormalizePath(addr) = <<"/">> \o rest
    BY <1>4 DEF NormalizePath
  <2>3. addr[start] # "/"
    BY <2>1
  <2> HIDE DEF start, solid
  <2>4. start \in 1 .. Len(addr) /\ Len(addr) \in start .. Len(addr)
    BY <1>1, <2>1
  <2>5. /\ rest \in Seq(W) /\ Len(rest) = Len(addr) - start + 1
        /\ rest[1] = addr[start] /\ rest[Len(addr) - start + 1] = addr[Len(addr)]
    BY <2>4, Span
  <2> HIDE DEF rest
  <2>6. <<"/">> \in Seq(W) /\ Len(<<"/">>) = 1
    BY DEF HasParts
  <2>7. /\ <<"/">> \o rest \in Seq(W)
        /\ Len(<<"/">> \o rest) = 1 + Len(rest)
        /\ \A i \in 1 .. 1 + Len(rest) :
             (<<"/">> \o rest)[i] = IF i <= 1 THEN <<"/">>[i] ELSE rest[i - 1]
    BY <2>5, <2>6, ConcatProperties
  <2>8. Len(rest) \in Nat /\ Len(rest) >= 1 /\ 1 + Len(rest) - 1 = Len(rest)
    BY <1>1, <2>4, <2>5
  <2>9. /\ (<<"/">> \o rest)[1] = "/" /\ (<<"/">> \o rest)[2] = rest[1]
        /\ (<<"/">> \o rest)[1 + Len(rest)] = rest[Len(rest)]
    <3>1. 1 \in 1 .. 1 + Len(rest) /\ 2 \in 1 .. 1 + Len(rest)
            /\ 1 + Len(rest) \in 1 .. 1 + Len(rest) /\ ~ (1 + Len(rest) <= 1)
      BY <2>8
    <3>2. (<<"/">> \o rest)[1] = "/"
      BY <2>7, <3>1
    <3>3. (<<"/">> \o rest)[2] = rest[1]
      BY <2>7, <3>1
    <3>4. (<<"/">> \o rest)[1 + Len(rest)] = rest[Len(rest)]
      BY <2>7, <2>8, <3>1
    <3> QED BY <3>2, <3>3, <3>4
  <2>10. rest[1] # "/" /\ rest[Len(rest)] # " "
    <3>1. addr[Len(addr)] # " "
      BY <1>4 DEF EndsSolid
    <3> QED BY <2>3, <2>5, <3>1, Zenon
  <2>11. Len(<<"/">> \o rest) >= 2
    BY <2>7, <2>8
  <2>12. IsPath(<<"/">> \o rest)
    BY <2>7, <2>9, <2>10, <2>11, Zenon DEF IsPath
  <2> QED BY <2>2, <2>7, <2>12, Zenon
<1> QED BY <1>2, <1>3, <1>4

(* Without leading slashes a path is kept behind one.                      *)
LEMMA NormalizingKeeps ==
  ASSUME NEW W, NEW addr \in Seq(W), addr # <<>>
  PROVE  addr[1] # "/" => NormalizePath(addr) = <<"/">> \o addr
<1> DEFINE solid == {n \in DOMAIN addr : addr[n] # "/"}
<1>1. Len(addr) \in Nat /\ solid \in SUBSET (1 .. Len(addr)) /\ 1 \in DOMAIN addr
  BY LenProperties, EmptySeq
<1> SUFFICES ASSUME addr[1] # "/" PROVE NormalizePath(addr) = <<"/">> \o addr
  OBVIOUS
<1>2. 1 \in solid
  BY <1>1
<1>3. NormalizePath(addr) = <<"/">> \o SubSeq(addr, Min(solid), Len(addr))
  BY <1>2 DEF NormalizePath
<1> HIDE DEF solid
<1>4. Min(solid) = 1
  <2>1. solid \in SUBSET Nat
    BY <1>1
  <2>2. \A n \in solid : 1 <= n
    BY <1>1
  <2> QED BY <1>2, <2>1, <2>2, MinIsKnown
<1> QED BY <1>3, <1>4, SubSeqFull

(* The id of a registration is read as what was registered.                *)
LEMMA IdIsRead ==
  ASSUME NEW W, HasParts(W), NEW name \in Seq(W), IsName(name),
         NEW addr \in Seq(W), IsPath(addr), NEW other
  PROVE  ResolveService(name \o addr, other) = [bus_name |-> name, object_path |-> addr]
<1> DEFINE id == name \o addr
           k == Len(name)
           p == Len(addr)
           slashes == {n \in DOMAIN id : id[n] = "/"}
<1>1. k \in Nat /\ p \in Nat /\ k >= 1 /\ p >= 2
  <2>1. name # <<>> /\ Len(addr) >= 2
    BY DEF IsName, IsPath
  <2> QED BY <2>1, LenProperties, EmptySeq
<1>2. /\ id \in Seq(W) /\ Len(id) = k + p /\ DOMAIN id = 1 .. k + p
      /\ \A i \in 1 .. k + p : id[i] = IF i <= k THEN name[i] ELSE addr[i - k]
  <2>1. /\ id \in Seq(W) /\ Len(id) = k + p
        /\ \A i \in 1 .. k + p : id[i] = IF i <= k THEN name[i] ELSE addr[i - k]
    BY ConcatProperties
  <2> HIDE DEF id
  <2>2. DOMAIN id = 1 .. k + p
    BY <2>1, LenProperties
  <2> QED BY <2>1, <2>2
<1> HIDE DEF id, k, p
<1>3. /\ \A i \in 1 .. k : id[i] = name[i]
      /\ \A i \in 1 .. p : id[k + i] = addr[i]
  <2>1. ASSUME NEW i \in 1 .. k PROVE id[i] = name[i]
    <3>1. i \in 1 .. k + p /\ i <= k
      BY <1>1
    <3> QED BY <1>2, <3>1
  <2>2. ASSUME NEW i \in 1 .. p PROVE id[k + i] = addr[i]
    <3> DEFINE j == k + i
    <3>2. j \in 1 .. k + p /\ ~ (j <= k) /\ j - k = i
      BY <1>1
    <3> HIDE DEF j
    <3>3. id[j] = addr[i]
      BY <1>2, <3>2, Zenon
    <3> QED BY <3>3 DEF j
  <2> QED BY <2>1, <2>2
<1>4. Trimmed(id) = id
  <2>1. 1 \in 1 .. k /\ p \in 1 .. p
    BY <1>1
  <2>2. id # <<>>
    <3>1. Len(id) # 0
      BY <1>1, <1>2
    <3> QED BY <3>1
  <2>3. id[1] = name[1] /\ id[Len(id)] = addr[p]
    BY <1>2, <1>3, <2>1
  <2>4. SolidEnds(id)
    BY <2>3, Zenon DEF SolidEnds, IsName, IsPath, p
  <2> QED BY <1>2, <2>4, Trimming
<1>5. k + 1 \in slashes /\ \A n \in slashes : n \in Nat /\ k + 1 <= n
  <2>1. k + 1 \in slashes
    <3>1. 1 \in 1 .. p /\ k + 1 \in 1 .. k + p
      BY <1>1
    <3>2. id[k + 1] = addr[1] /\ k + 1 \in DOMAIN id
      BY <1>2, <1>3, <3>1
    <3> QED BY <3>2, Zenon DEF IsPath
  <2>2. ASSUME NEW n \in slashes, ~ (k + 1 <= n) PROVE FALSE
    <3>1. n \in 1 .. k + p /\ id[n] = "/"
      BY <1>2
    <3>2. n \in 1 .. k
      BY <1>1, <2>2, <3>1
    <3>3. name[n] = "/"
      BY <1>3, <3>1, <3>2
    <3> QED BY <3>2, <3>3 DEF k, IsName
  <2>3. \A n \in slashes : n \in Nat
    BY <1>1, <1>2
  <2> QED BY <2>1, <2>2, <2>3
<1>6. Min(slashes) = k + 1 /\ slashes # {}
  <2> HIDE DEF slashes
  <2>1. slashes \in SUBSET Nat /\ slashes # {}
    BY <1>5
  <2> QED BY <1>5, <2>1, MinIsKnown
<1>7. ResolveService(id, other) =
        [ bus_name |-> IF SubSeq(id, 1, Min(slashes) - 1) = <<>>
                         THEN other ELSE SubSeq(id, 1, Min(slashes) - 1),
          object_path |-> NormalizePath(SubSeq(id, Min(slashes) + 1, Len(id))) ]
  <2> HIDE DEF slashes
  <2>1. Trimmed(id) = id /\ slashes # {}
    BY <1>4, <1>6
  <2> QED BY <2>1 DEF ResolveService, slashes
<1> HIDE DEF slashes
<1>8. SubSeq(id, 1, k) = name
  <2>1. 1 \in 1 .. Len(id) /\ k \in 1 .. Len(id) /\ k - 1 + 1 = k
    BY <1>1, <1>2
  <2>2. /\ SubSeq(id, 1, k) \in Seq(W) /\ Len(SubSeq(id, 1, k)) = k
        /\ \A i \in 1 .. k : SubSeq(id, 1, k)[i] = id[1 + i - 1]
    BY <1>2, <2>1, Span
  <2>3. \A i \in 1 .. k : SubSeq(id, 1, k)[i] = name[i]
    BY <1>1, <1>3, <2>2
  <2> QED BY <2>2, <2>3, SeqEqual DEF k
<1>9. SubSeq(id, k + 2, Len(id)) = Tail(addr)
  <2>1. /\ addr # <<>>
        /\ Tail(addr) \in Seq(W) /\ Len(Tail(addr)) = p - 1
        /\ \A i \in 1 .. p - 1 : Tail(addr)[i] = addr[i + 1]
    <3>1. addr # <<>>
      BY <1>1 DEF p
    <3> QED BY <3>1, HeadTailProperties DEF p
  <2>2. k + 2 \in 1 .. Len(id) /\ Len(id) \in k + 2 .. Len(id) /\ Len(id) - (k + 2) + 1 = p - 1
    BY <1>1, <1>2
  <2>3. /\ SubSeq(id, k + 2, Len(id)) \in Seq(W)
        /\ Len(SubSeq(id, k + 2, Len(id))) = p - 1
        /\ \A i \in 1 .. p - 1 : SubSeq(id, k + 2, Len(id))[i] = id[k + 2 + i - 1]
    BY <1>2, <2>2, Span
  <2>4. \A i \in 1 .. p - 1 : id[k + 2 + i - 1] = addr[i + 1]
    <3> SUFFICES ASSUME NEW i \in 1 .. p - 1 PROVE id[k + 2 + i - 1] = addr[i + 1]
      OBVIOUS
    <3>1. i + 1 \in 1 .. p /\ k + 2 + i - 1 = k + (i + 1)
      BY <1>1
    <3> QED BY <1>3, <3>1
  <2> QED BY <2>1, <2>3, <2>4, SeqEqual
<1>10. NormalizePath(Tail(addr)) = addr
  <2>1. /\ addr # <<>>
        /\ Tail(addr) \in Seq(W) /\ Len(Tail(addr)) = p - 1
        /\ \A i \in 1 .. p - 1 : Tail(addr)[i] = addr[i + 1]
    <3>1. addr # <<>>
      BY <1>1 DEF p
    <3> QED BY <3>1, HeadTailProperties DEF p
  <2>2. Tail(addr) # <<>> /\ Tail(addr)[1] # "/"
    <3>1. 1 \in 1 .. p - 1 /\ 1 + 1 = 2
      BY <1>1
    <3>2. Len(Tail(addr)) # 0
      BY <1>1, <2>1
    <3>3. Tail(addr) # <<>>
      BY <3>2, EmptySeq, Zenon
    <3>4. Tail(addr)[1] = addr[2]
      BY <2>1, <3>1
    <3> QED BY <3>3, <3>4 DEF IsPath
  <2>3. NormalizePath(Tail(addr)) = <<"/">> \o Tail(addr)
    BY <2>1, <2>2, NormalizingKeeps
  <2>4. <<"/">> \in Seq(W) /\ Len(<<"/">>) = 1
    BY DEF HasParts
  <2>5. /\ <<"/">> \o Tail(addr) \in Seq(W)
        /\ Len(<<"/">> \o Tail(addr)) = p
        /\ \A i \in 1 .. p :
             (<<"/">> \o Tail(addr))[i] = IF i <= 1 THEN <<"/">>[i] ELSE Tail(addr)[i - 1]
    <3> DEFINE tail == Tail(addr)
    <3>1. tail \in Seq(W) /\ 1 + Len(tail) = p
      BY <1>1, <2>1
    <3> HIDE DEF tail
    <3>2. /\ <<"/">> \o tail \in Seq(W)
          /\ Len(<<"/">> \o tail) = 1 + Len(tail)
          /\ \A i \in 1 .. 1 + Len(tail) :
               (<<"/">> \o tail)[i] = IF i <= 1 THEN <<"/">>[i] ELSE tail[i - 1]
      BY <2>4, <3>1, ConcatProperties
    <3> QED BY <3>1, <3>2 DEF tail
  <2>6. ASSUME NEW i \in 1 .. p PROVE (<<"/">> \o Tail(addr))[i] = addr[i]
    <3>1. CASE i = 1
      <4>1. (<<"/">> \o Tail(addr))[1] = "/"
        BY <1>1, <2>5
      <4> QED BY <3>1, <4>1 DEF IsPath
    <3>2. CASE i # 1
      <4>1. i - 1 \in 1 .. p - 1 /\ i - 1 + 1 = i /\ ~ (i <= 1)
        BY <1>1, <3>2
      <4> QED BY <2>1, <2>5, <4>1
    <3> QED BY <3>1, <3>2
  <2> QED BY <2>3, <2>5, <2>6, SeqEqual DEF p
<1>11. Min(slashes) - 1 = k /\ Min(slashes) + 1 = k + 2
  <2> DEFINE m == Min(slashes)
  <2>1. m = k + 1
    BY <1>6
  <2> HIDE DEF m
  <2>2. m - 1 = k /\ m + 1 = k + 2
    BY <1>1, <2>1
  <2> QED BY <2>2 DEF m
<1>12. name # <<>>
  BY DEF IsName
<1>13. SubSeq(id, 1, Min(slashes) - 1) = name /\ SubSeq(id, Min(slashes) + 1, Len(id)) = Tail(addr)
  BY <1>8, <1>9, <1>11
<1> QED BY <1>7, <1>10, <1>12, <1>13, Zenon DEF id

LEMMA WhatIsRegistered ==
  ASSUME NEW W, HasParts(W), NEW spelling \in Seq(W), NEW caller \in Seq(W), IsName(caller)
  PROVE  \E name \in Seq(W), addr \in Seq(W) :
           /\ ResolveService(spelling, caller) = [bus_name |-> name, object_path |-> addr]
           /\ IsName(name)
           /\ addr # <<"/">> => IsPath(addr)
<1> DEFINE text == Trimmed(spelling)
           slashes == {n \in DOMAIN text : text[n] = "/"}
           cut == Min(slashes)
           front == SubSeq(text, 1, cut - 1)
           back == SubSeq(text, cut + 1, Len(text))
           bus == IF slashes = {} THEN text ELSE front
           addr == IF slashes = {} THEN DefaultItemPath ELSE NormalizePath(back)
           name == IF bus = <<>> THEN caller ELSE bus
<1>1. text \in Seq(W) /\ SolidEnds(text)
  BY Trimming
<1>2. ResolveService(spelling, caller) = [bus_name |-> name, object_path |-> addr]
  BY DEF ResolveService
<1> HIDE DEF text
<1>3. Len(text) \in Nat /\ DOMAIN text = 1 .. Len(text) /\ slashes \in SUBSET (1 .. Len(text))
  BY <1>1, LenProperties
<1>4. CASE slashes = {}
  <2>1. DefaultItemPath \in Seq(W) /\ IsPath(DefaultItemPath)
    BY DEF DefaultItemPath, HasParts, IsPath
  <2>2. \A n \in 1 .. Len(text) : text[n] # "/"
    BY <1>3, <1>4
  <2>3. text # <<>> => IsName(text)
    BY <1>1, <2>2 DEF SolidEnds, IsName
  <2>4. bus = text /\ addr = DefaultItemPath
    BY <1>4
  <2> HIDE DEF slashes, cut, front, back, bus, addr
  <2>5. name \in Seq(W) /\ IsName(name)
    BY <1>1, <2>3, <2>4
  <2> HIDE DEF name
  <2> QED BY <1>2, <2>1, <2>4, <2>5
<1>5. CASE slashes # {}
  <2>1. cut \in slashes /\ \A n \in slashes : cut <= n
    <3> HIDE DEF slashes
    <3>1. slashes \in SUBSET Nat
      BY <1>3
    <3> QED BY <1>5, <3>1, MinOfSome
  <2>2. \A n \in 1 .. Len(text) : text[n] = "/" => n \in slashes
    BY <1>3
  <2>3. bus = front /\ addr = NormalizePath(back)
    BY <1>5
  <2> HIDE DEF slashes, cut, bus, addr
  <2>4. cut \in 1 .. Len(text)
    BY <1>3, <2>1
  <2>5. front \in Seq(W) /\ (front # <<>> => IsName(front))
    <3>1. CASE cut = 1
      <4>1. cut - 1 < 1
        BY <3>1
      <4>2. front = <<>>
        BY <2>4, <4>1, SubSeqEmpty
      <4>3. <<>> \in Seq(W)
        BY EmptySeq
      <4> QED BY <4>2, <4>3, Zenon
    <3>2. CASE cut # 1
      <4>1. 1 \in 1 .. Len(text) /\ cut - 1 \in 1 .. Len(text) /\ cut - 1 - 1 + 1 = cut - 1
        BY <1>3, <2>4, <3>2
      <4>2. /\ front \in Seq(W) /\ Len(front) = cut - 1 - 1 + 1
            /\ \A i \in 1 .. cut - 1 - 1 + 1 : front[i] = text[1 + i - 1]
            /\ front[1] = text[1]
        BY <1>1, <4>1, Span
      <4>3. text # <<>>
        BY <1>1, <1>3, <4>1, EmptySeq
      <4>4. front[1] # " "
        BY <1>1, <4>2, <4>3, Zenon DEF SolidEnds
      <4> HIDE DEF front
      <4>5. ASSUME NEW i \in 1 .. Len(front) PROVE front[i] # "/"
        <5>1. i \in 1 .. cut - 1 - 1 + 1 /\ i \in 1 .. Len(text) /\ 1 + i - 1 = i /\ ~ (cut <= i)
          BY <1>3, <2>4, <4>1, <4>2
        <5>2. front[i] = text[i]
          BY <4>2, <5>1
        <5> QED BY <2>1, <2>2, <5>1, <5>2, Zenon
      <4> QED BY <4>2, <4>4, <4>5, Zenon DEF IsName
    <3> QED BY <3>1, <3>2
  <2>6. back \in Seq(W) /\ EndsSolid(back)
    <3>1. CASE cut = Len(text)
      <4>1. Len(text) < cut + 1
        BY <1>3, <3>1
      <4>2. back = <<>>
        BY <1>3, <2>4, <4>1, SubSeqEmpty
      <4>3. <<>> \in Seq(W)
        BY EmptySeq
      <4> QED BY <4>2, <4>3, Zenon DEF EndsSolid
    <3>2. CASE cut # Len(text)
      <4>1. cut + 1 \in 1 .. Len(text) /\ Len(text) \in cut + 1 .. Len(text)
        <5> DEFINE size == Len(text)
        <5>1. size \in Nat /\ cut \in 1 .. size /\ cut # size
          BY <1>3, <2>4, <3>2
        <5> HIDE DEF size
        <5>2. cut + 1 \in 1 .. size /\ size \in cut + 1 .. size
          BY <5>1
        <5> QED BY <5>2 DEF size
      <4>2. /\ back \in Seq(W) /\ Len(back) = Len(text) - (cut + 1) + 1
            /\ back[Len(text) - (cut + 1) + 1] = text[Len(text)]
        BY <1>1, <4>1, Span
      <4>3. text # <<>>
        BY <1>1, <1>3, <4>1, EmptySeq
      <4> HIDE DEF back
      <4> QED BY <1>1, <4>2, <4>3, Zenon DEF SolidEnds, EndsSolid
    <3> QED BY <3>1, <3>2
  <2> HIDE DEF front, back
  <2>7. NormalizePath(back) \in Seq(W)
          /\ (NormalizePath(back) # <<"/">> => IsPath(NormalizePath(back)))
    BY <2>6, Normalizing
  <2>8. name \in Seq(W) /\ IsName(name)
    BY <2>3, <2>5
  <2> HIDE DEF name
  <2> QED BY <1>2, <2>3, <2>7, <2>8, Zenon
<1> QED BY <1>4, <1>5

(* The id under which an item is listed names the item to everybody: who   *)
(* reads it finds the bus name and the path that were registered, whatever *)
(* spelling the application used, unless the path is the root              *)
(* (sni.rs ServiceRef::resolve and registration_id).                       *)
THEOREM IdsResolveBack ==
  ASSUME NEW W, NEW spelling \in Seq(W), NEW caller \in Seq(W), IsName(caller), NEW other
  PROVE  ResolvesBack(spelling, caller, other)
<1> DEFINE V == W \cup {"/", "StatusNotifierItem"}
           ref == ResolveService(spelling, caller)
<1>1. HasParts(V) /\ spelling \in Seq(V) /\ caller \in Seq(V)
  <2>1. W \subseteq V /\ HasParts(V)
    BY DEF HasParts
  <2> HIDE DEF V
  <2> QED BY <2>1, SeqMonotonic
<1> HIDE DEF V
<1>2. PICK name \in Seq(V), addr \in Seq(V) :
        /\ ref = [bus_name |-> name, object_path |-> addr]
        /\ IsName(name)
        /\ addr # <<"/">> => IsPath(addr)
  BY <1>1, WhatIsRegistered
<1>3. ref.bus_name = name /\ ref.object_path = addr
  BY <1>2
<1>4. addr # <<"/">> => ResolveService(name \o addr, other) = ref
  BY <1>1, <1>2, IdIsRead
<1>5. RegistrationId(ref) = name \o addr
  BY <1>3 DEF RegistrationId
<1> HIDE DEF ref
<1> QED BY <1>3, <1>4, <1>5, Zenon DEF ResolvesBack, ref

-----------------------------------------------------------------------------
(* What decoding makes of values that D-Bus typed.                         *)
WirePixmap == Int \X Int \X Seq(Colours)

Pixels == Seq(Pixmap(Colours))

LEMMA DecodedArray ==
  ASSUME NEW elements \in Seq(WirePixmap)
  PROVE  [n \in DOMAIN elements |->
            PixmapOf(elements[n][1], elements[n][2], elements[n][3])] \in Pixels
<1>1. \A n \in 1 .. Len(elements) :
         PixmapOf(elements[n][1], elements[n][2], elements[n][3]) \in Pixmap(Colours)
  <2> TAKE n \in 1 .. Len(elements)
  <2>1. elements[n] \in WirePixmap
    OBVIOUS
  <2> DEFINE element == elements[n]
  <2> HIDE DEF element
  <2>2. element[1] \in Int /\ element[2] \in Int /\ element[3] \in Seq(Colours)
    BY <2>1 DEF WirePixmap, element
  <2>3. PixmapOf(element[1], element[2], element[3]) \in Pixmap(Colours)
    BY <2>2 DEF PixmapOf, Pixmap
  <2> QED BY <2>3 DEF element
<1>2. DOMAIN elements = 1 .. Len(elements)
  OBVIOUS
<1> DEFINE At(n) == PixmapOf(elements[n][1], elements[n][2], elements[n][3])
<1> HIDE DEF At
<1>3. [n \in 1 .. Len(elements) |-> At(n)] \in Seq(Pixmap(Colours))
  BY <1>1, IsASeq, LenProperties DEF At
<1> QED BY <1>2, <1>3 DEF At, Pixels

LEMMA PlainIsTyped ==
  ASSUME NEW wrapped, IsTyped(wrapped)
  PROVE  /\ AsPixmaps(ToPropPlain(wrapped)) \in Pixels
         /\ ToPropPlain(wrapped)[1] = "Bytes" => ToPropPlain(wrapped)[2] \in Seq(Colours)
<1> DEFINE value == Unwrapped(wrapped)
           decoded == ToPropPlain(wrapped)
<1>0. <<>> \in Pixels
  BY DEF Pixels
<1>1. CASE value[1] \in DOMAIN ScalarVariant
  <2>1. decoded[1] \in {"Bool", "Int", "UInt", "Str"}
    BY <1>1 DEF ToPropPlain, ScalarVariant
  <2>2. AsPixmaps(decoded) = <<>>
    BY <2>1 DEF AsPixmaps, As
  <2> QED BY <1>0, <2>1, <2>2
<1>2. CASE value[1] = "a"
  <2>1. decoded = ToPropArray(value[2], value[3])
    BY <1>2 DEF ToPropPlain, ScalarVariant
  <2>2. CASE value[2] = "y"
    <3>1. decoded = <<"Bytes", value[3]>>
      BY <2>1, <2>2 DEF ToPropArray
    <3>2. value[3] \in Seq(Colours)
      BY <1>2, <2>2 DEF IsTyped
    <3> QED BY <1>0, <3>1, <3>2 DEF AsPixmaps, As
  <2>3. CASE value[2] = "(iiay)"
    <3>1. value[3] \in Seq(WirePixmap)
      BY <1>2, <2>3 DEF IsTyped, WirePixmap
    <3> DEFINE elements == value[3]
               all == [n \in DOMAIN elements |->
                         PixmapOf(elements[n][1], elements[n][2], elements[n][3])]
    <3>2. decoded = <<"Pixmaps", all>>
      BY <2>1, <2>3 DEF ToPropArray
    <3>3. all \in Pixels
      BY <3>1, DecodedArray
    <3> HIDE DEF all, decoded
    <3>4. decoded[1] = "Pixmaps" /\ AsPixmaps(decoded) = all
      BY <3>2 DEF AsPixmaps, As
    <3> QED BY <3>3, <3>4 DEF decoded
  <2>4. CASE value[2] \notin {"y", "(iiay)"}
    <3>1. decoded[1] \in {"Strings", "StringLists", "Unsupported"}
      <4>1. CASE value[2] \in {"s", "o"}
        BY <2>1, <4>1 DEF ToPropArray
      <4>2. CASE value[2] = "as"
        BY <2>1, <4>2 DEF ToPropArray
      <4>3. CASE value[2] \notin {"s", "o", "as"}
        <5>1. decoded = Unsupported
          BY <2>1, <2>4, <4>3 DEF ToPropArray
        <5> HIDE DEF decoded
        <5> QED BY <5>1 DEF Unsupported
      <4> QED BY <4>1, <4>2, <4>3
    <3>2. AsPixmaps(decoded) = <<>>
      BY <3>1 DEF AsPixmaps, As
    <3> QED BY <1>0, <3>1, <3>2
  <2> QED BY <2>2, <2>3, <2>4
<1>3. CASE value[1] \notin DOMAIN ScalarVariant /\ value[1] # "a"
  <2>1. decoded = Unsupported
    BY <1>3 DEF ToPropPlain
  <2> HIDE DEF decoded
  <2>2. decoded[1] = "Unsupported"
    BY <2>1 DEF Unsupported
  <2>3. AsPixmaps(decoded) = <<>>
    BY <2>2 DEF AsPixmaps, As
  <2> QED BY <1>0, <2>2, <2>3 DEF decoded
<1> QED BY <1>1, <1>2, <1>3

(* Whatever is published decodes to pixmaps: integers for a size, and      *)
(* bytes for data, though not always as many as the size says.             *)
LEMMA PixmapsAreTyped ==
  ASSUME NEW wrapped, IsWire(wrapped)
  PROVE  AsPixmaps(ToPropValue(wrapped)) \in Pixels
<1> DEFINE value  == Unwrapped(wrapped)
           fields == value[2]
<1>1. value[1] # "v" /\ IsTyped(value)
        /\ (value[1] = "r" => \A n \in 1 .. Len(fields) : IsTyped(fields[n]))
  BY DEF IsWire
<1>2. Unwrapped(value) = value
  BY <1>1 DEF Unwrapped
<1>3. CASE IsToolTip(value)
  <2>1. ToPropValue(wrapped)[1] = "ToolTip"
    BY <1>3 DEF ToPropValue
  <2> QED BY <2>1 DEF AsPixmaps, As, Pixels
<1>4. CASE ~IsToolTip(value) /\ ~IsPixmap(value)
  <2>1. ToPropValue(wrapped) = ToPropPlain(value)
    BY <1>2, <1>4 DEF ToPropValue, ToPropField
  <2> QED BY <1>1, <2>1, PlainIsTyped
<1>5. CASE ~IsToolTip(value) /\ IsPixmap(value)
  <2> DEFINE data == ToPropPlain(fields[3])[2]
  <2>1. ToPropValue(wrapped)
          = <<"Pixmaps", <<PixmapOf(fields[1][2], fields[2][2], data)>> >>
    BY <1>2, <1>5 DEF ToPropValue, ToPropField
  <2>2. /\ value[1] = "r" /\ fields[1][1] = "i" /\ fields[2][1] = "i"
        /\ ToPropPlain(fields[3])[1] = "Bytes"
    BY <1>5 DEF IsPixmap
  <2>3. IsTyped(fields[1]) /\ IsTyped(fields[2]) /\ IsTyped(fields[3])
    BY <1>1, <1>5, <2>2 DEF IsPixmap
  <2>4. fields[1][2] \in Int /\ fields[2][2] \in Int
    BY <2>2, <2>3 DEF IsTyped, Unwrapped
  <2>5. data \in Seq(Colours)
    BY <2>2, <2>3, PlainIsTyped
  <2> HIDE DEF data
  <2>6. PixmapOf(fields[1][2], fields[2][2], data) \in Pixmap(Colours)
    BY <2>4, <2>5 DEF PixmapOf, Pixmap
  <2> DEFINE p == PixmapOf(fields[1][2], fields[2][2], data)
  <2> HIDE DEF p
  <2>7. AsPixmaps(ToPropValue(wrapped)) = <<p>>
    BY <2>1 DEF AsPixmaps, As, p
  <2> QED BY <2>6, <2>7 DEF Pixels, p
<1> QED BY <1>3, <1>4, <1>5

-----------------------------------------------------------------------------
(* Every item an application can publish.                                  *)
LEMMA FramesAreWire ==
  ASSUME NEW f \in 0 .. Frames - 1
  PROVE  IsWire(Frame[f])
<1> DEFINE Stripe(size, x, y) ==
             <<255, IF ((x + y) \div (size \div 8)) % Frames = f THEN 255 ELSE 90>>
           Square(size) == Picture(size, size, LAMBDA x, y : Stripe(size, x, y))
           pixmaps == [n \in DOMAIN FrameSizes |-> Square(FrameSizes[n])]
           elements == [n \in DOMAIN FrameSizes |->
                          <<Square(FrameSizes[n]).width, Square(FrameSizes[n]).height,
                            Square(FrameSizes[n]).data>>]
<1>1. Frame[f] = <<"a", "(iiay)", elements>>
  BY DEF Frame, IconFrame, WirePixmaps
<1>2. \A size \in Nat : Square(size).width \in Int /\ Square(size).height \in Int
                          /\ Square(size).data \in Seq(Colours)
  <2> TAKE size \in Nat
  <2>1. \A x, y : Stripe(size, x, y) \in Colours
    BY DEF Colours
  <2> HIDE DEF Stripe
  <2>2. size * size \in Nat
    OBVIOUS
  <2> DEFINE At(n) == Stripe(size, (n - 1) % size, (n - 1) \div size)
  <2>3. Square(size).data = [n \in 1 .. size * size |-> At(n)]
          /\ Square(size).width = size /\ Square(size).height = size
    BY DEF Picture
  <2>4. \A n \in 1 .. size * size : At(n) \in Colours
    BY <2>1
  <2> HIDE DEF At
  <2>5. [n \in 1 .. size * size |-> At(n)] \in Seq(Colours)
    BY <2>2, <2>4, IsASeq
  <2> HIDE DEF Square
  <2> QED BY <2>3, <2>5
<1> HIDE DEF Square
<1>3. FrameSizes \in Seq(Nat)
  BY SizesAreLarge
<1> DEFINE At(n) == <<Square(FrameSizes[n]).width, Square(FrameSizes[n]).height,
                      Square(FrameSizes[n]).data>>
<1>4. \A n \in 1 .. Len(FrameSizes) : At(n) \in WirePixmap
  BY <1>2, <1>3 DEF WirePixmap
<1>5. elements = [n \in 1 .. Len(FrameSizes) |-> At(n)]
  BY <1>3
<1> HIDE DEF At
<1>6. elements \in Seq(WirePixmap)
  BY <1>3, <1>4, <1>5, IsASeq, LenProperties
<1> HIDE DEF elements
<1> DEFINE icon == Frame[f]
<1>7. icon[1] = "a" /\ icon[2] = "(iiay)" /\ icon[3] = elements
  BY <1>1
<1> HIDE DEF icon
<1>8. Unwrapped(icon) = icon
  BY <1>7 DEF Unwrapped
<1>9. IsTyped(icon)
  BY <1>6, <1>7, <1>8 DEF IsTyped, WirePixmap
<1>10. IsWire(icon)
  BY <1>7, <1>8, <1>9 DEF IsWire
<1> QED BY <1>10 DEF icon

LEMMA PixmapsExported ==
  ASSUME ItemTypeOK,
         NEW name \in {"IconPixmap", "OverlayIconPixmap", "AttentionIconPixmap"}
  PROVE  name \in DOMAIN Exports /\ AsPixmaps(ToPropMap(Exports)[name]) \in Pixels
<1> DEFINE own == TestExports(frame, status)
           value == IF name \in DOMAIN published THEN published[name] ELSE own[name]
<1>1. name \in DOMAIN own /\ own[name] \in {Frame[f] : f \in 0 .. Frames - 1}
  <2>1. frame \in 0 .. 3 /\ (frame + 1) % Frames \in 0 .. 3 /\ (frame + 2) % Frames \in 0 .. 3
    BY DEF ItemTypeOK, Frames
  <2>2. /\ DOMAIN own = DOMAIN TestExports(frame, status)
        /\ own["IconPixmap"] = Frame[frame]
        /\ own["AttentionIconPixmap"] = Frame[(frame + 1) % Frames]
        /\ own["OverlayIconPixmap"] = Frame[(frame + 2) % Frames]
    BY DEF TestExports
  <2>3. name \in DOMAIN own
    BY DEF TestExports
  <2> HIDE DEF own
  <2> QED BY <2>1, <2>2, <2>3 DEF Frames
<1> HIDE DEF own
<1>2. IsWire(value)
  <2>2. CASE name \in DOMAIN published
    <3>1. PICK choice \in PropValues : choice[2] = published[name]
      BY <2>2 DEF ItemTypeOK
    <3>2. IsWire(published[name])
      BY <3>1, ValuesAreTyped
    <3> QED BY <2>2, <3>2
  <2>3. CASE name \notin DOMAIN published
    BY <1>1, <2>3, FramesAreWire
  <2> QED BY <2>2, <2>3
<1>3. name \in DOMAIN Exports /\ Exports[name] = InVariant(value)
  BY <1>1 DEF Exports, own
<1> HIDE DEF value
<1>4. Unwrapped(InVariant(value)) = Unwrapped(value)
  BY DEF Unwrapped, InVariant
<1>5. IsWire(InVariant(value))
  BY <1>2, <1>4 DEF IsWire
<1>6. ToPropMap(Exports)[name] = ToPropValue(InVariant(value))
  BY <1>3 DEF ToPropMap
<1> QED BY <1>3, <1>5, <1>6, PixmapsAreTyped

LEMMA PropsAreTyped ==
  ASSUME ItemTypeOK
  PROVE  IsProps(Props)
<1> DEFINE map == ToPropMap(Exports)
           names == {"IconPixmap", "OverlayIconPixmap", "AttentionIconPixmap"}
<1>1. \A name \in names : name \in DOMAIN map /\ AsPixmaps(map[name]) \in Pixels
  BY PixmapsExported DEF ToPropMap
<1> HIDE DEF map
<1>2. /\ FromMap(map).icon.pixmaps = AsPixmaps(map["IconPixmap"])
      /\ FromMap(map).overlay.pixmaps = AsPixmaps(map["OverlayIconPixmap"])
      /\ FromMap(map).attention.pixmaps = AsPixmaps(map["AttentionIconPixmap"])
  BY <1>1 DEF FromMap, Icon
<1> QED BY <1>1, <1>2 DEF Props, map, IsProps, IsIcon, Pixels

(* An item only ever holds one of its frames and statuses, and values that *)
(* some application publishes under that name.                             *)
THEOREM ItemsAreTyped == ItemSpec => []ItemTypeOK
<1>1. ItemInit => ItemTypeOK
  BY DEF ItemInit, ItemAtStart, ItemTypeOK, Frames, Statuses
<1>2. ItemTypeOK /\ [ItemNext]_publishedVars => ItemTypeOK'
  <2> SUFFICES ASSUME ItemTypeOK, [ItemNext]_publishedVars PROVE ItemTypeOK'
    OBVIOUS
  <2> USE DEF ItemTypeOK
  <2>1. CASE Animate
    BY <2>1 DEF Animate, Frames
  <2>2. CASE FlipStatus
    BY <2>2 DEF FlipStatus, Statuses
  <2>3. ASSUME NEW choice \in PropValues, Publish(choice[1], choice[2])
        PROVE  ItemTypeOK'
    <3>1. UNCHANGED <<service, frame, status>>
      BY <2>3 DEF Publish
    <3>2. published' = [name \in {choice[1]} \cup DOMAIN published |->
                          IF name = choice[1] THEN choice[2] ELSE published[name]]
      BY <2>3 DEF Publish
    <3>3. ASSUME NEW name \in DOMAIN published'
          PROVE  \E c \in PropValues : c[1] = name /\ c[2] = published'[name]
      <4>1. CASE name = choice[1]
        BY <3>2, <4>1
      <4>2. CASE name # choice[1]
        BY <3>2, <4>2
      <4> QED BY <4>1, <4>2
    <3> QED BY <3>1, <3>3
  <2>4. CASE UNCHANGED publishedVars
    BY <2>4 DEF publishedVars
  <2> QED BY <2>1, <2>2, <2>3, <2>4 DEF ItemNext
<1> QED BY <1>1, <1>2, PTL DEF ItemSpec

(* Whatever an application publishes and whatever state it is in, an icon  *)
(* it has, by name or by usable pixels, is shown (sni.rs effective_icon,   *)
(* view.rs resolve).                                                       *)
THEOREM IconsAreNeverLost == ItemSpec => []IconNeverLost
<1>1. ItemTypeOK => IconNeverLost
  BY PropsAreTyped, IconsAreKept, PanelAsks DEF IconNeverLost
<1> QED BY <1>1, ItemsAreTyped, PTL

(* The pixmap drawn for an item is always one of those it published that   *)
(* no other one fits the panel better than (icon.rs pick_best).            *)
THEOREM FittestIsAlwaysShown == ItemSpec => []BestPixmapShown
<1>1. ItemTypeOK => BestPixmapShown
  BY PropsAreTyped, FittestIsDrawn, PanelAsks DEF BestPixmapShown
<1> QED BY <1>1, ItemsAreTyped, PTL

(* The badge an item published never changes the size of its icon nor a    *)
(* pixel around the badge (icon.rs composite).                             *)
THEOREM BadgesAlwaysStayInside == ItemSpec => []BadgesStayInside
<1>1. ItemTypeOK => BadgesStayInside
  BY PropsAreTyped, BadgesAreDrawn, PanelAsks DEF BadgesStayInside
<1> QED BY <1>1, ItemsAreTyped, PTL

(* An item that published any text of its own is always announced by one   *)
(* (sni.rs accessible_name).                                               *)
THEOREM ItemsAlwaysHaveNames == ItemSpec => []EveryItemHasAName
<1>1. EveryItemHasAName
  BY NamesAreSpoken DEF EveryItemHasAName
<1> QED BY <1>1, PTL

(* Whatever name an application registered with, the id it is listed under *)
(* is read back as that item (sni.rs registration_id, resolve).            *)
THEOREM IdsAlwaysResolveBack == ItemSpec => []RegistrationIdsResolveBack
<1>1. ItemTypeOK => RegistrationIdsResolveBack
  BY NamesAreTexts, IdsResolveBack DEF ItemTypeOK, RegistrationIdsResolveBack
<1> QED BY <1>1, ItemsAreTyped, PTL

-----------------------------------------------------------------------------
(* The node of a menu that is decoded from this dictionary, but for what   *)
(* is under it.                                                            *)
DecodedFrom(node, dict) ==
  /\ DOMAIN node = DOMAIN NewNode(node.id)
  /\ \A field \in DOMAIN NameOf :
       node[field] = WithProperties(NewNode(node.id), ToPropMap(dict))[field]

(* What NodeFromValue and LayoutToTree start with, and PatchNode, too.     *)
LEMMA NewNodesAreDecoded ==
  ASSUME NEW id, NEW dict, NEW below
  PROVE  DecodedFrom([WithProperties(NewNode(id), ToPropMap(dict)) EXCEPT !.children = below], dict)
<1> DEFINE named == WithProperties(NewNode(id), ToPropMap(dict))
           node  == [named EXCEPT !.children = below]
<1>1. /\ DOMAIN NewNode(id) = DOMAIN NewNode(node.id)
      /\ DOMAIN NameOf \subseteq DOMAIN NewNode(id) /\ "children" \notin DOMAIN NameOf
      /\ "id" \in DOMAIN NewNode(id) \ DOMAIN NameOf /\ NewNode(id).id = id
  BY DEF NewNode, NameOf
<1>2. DOMAIN named = DOMAIN NewNode(id) /\ named.id = id
  BY <1>1 DEF WithProperties
<1> HIDE DEF named
<1>3. DOMAIN node = DOMAIN NewNode(id) /\ node.id = id
        /\ \A field \in DOMAIN NameOf : node[field] = named[field]
  BY <1>1, <1>2
<1> HIDE DEF node
<1>4. DecodedFrom(node, dict)
  BY <1>1, <1>3 DEF DecodedFrom, named
<1> QED BY <1>4 DEF node, named

(* A value decides a field, but for a shortcut that is none.               *)
LEMMA ValueDecides ==
  ASSUME NEW node, NEW other, NEW field \in DOMAIN NameOf, NEW value,
         field = "shortcut" => value[1] = "StringLists"
  PROVE  FieldValue(node, field, value) = FieldValue(other, field, value)
<1>1. field \in {"kind", "label", "enabled", "visible", "toggle_state", "toggle_type",
                 "icon_name", "shortcut"}
  BY DEF NameOf
<1>2. CASE field = "shortcut"
  BY <1>2 DEF FieldValue, As
<1>3. CASE field # "shortcut"
  BY <1>1, <1>3 DEF FieldValue
<1> QED BY <1>2, <1>3

LEMMA FieldsOfNodes ==
  ASSUME NEW node, DOMAIN node = DOMAIN NewNode(node.id)
  PROVE  /\ DOMAIN NameOf \subseteq DOMAIN node
         /\ "id" \in DOMAIN node \ DOMAIN NameOf /\ "children" \in DOMAIN node \ DOMAIN NameOf
         /\ \A id : DOMAIN NewNode(id) = DOMAIN node
BY DEF NewNode, NameOf

(* Patching a node is decoding it anew from the dictionary as the update   *)
(* changed it (menu.rs patch_node and with_properties), but for a shortcut *)
(* of the wrong type, which a patch leaves and a fetch drops.              *)
THEOREM PatchingIsDecoding ==
  ASSUME NEW node, NEW dict, NEW update, DecodedFrom(node, dict),
         "shortcut" \in DOMAIN update => ToPropValue(update["shortcut"])[1] = "StringLists"
  PROVE  LET patched == WithProperties(node, ToPropMap(update))
             changed == [name \in DOMAIN update \cup DOMAIN dict |->
                           IF name \in DOMAIN update THEN update[name] ELSE dict[name]]
         IN  /\ DecodedFrom(patched, changed)
             /\ patched.id = node.id /\ patched.children = node.children
<1> DEFINE patched == WithProperties(node, ToPropMap(update))
           changed == [name \in DOMAIN update \cup DOMAIN dict |->
                         IF name \in DOMAIN update THEN update[name] ELSE dict[name]]
           fresh == NewNode(node.id)
<1>1. DOMAIN node = DOMAIN fresh
  BY DEF DecodedFrom
<1>2. /\ DOMAIN NameOf \subseteq DOMAIN node
      /\ "id" \in DOMAIN node \ DOMAIN NameOf /\ "children" \in DOMAIN node \ DOMAIN NameOf
  BY <1>1, FieldsOfNodes
<1>3. DOMAIN patched = DOMAIN node /\ patched.id = node.id /\ patched.children = node.children
  BY <1>2 DEF WithProperties
<1>4. ASSUME NEW field \in DOMAIN NameOf
      PROVE  patched[field] = WithProperties(fresh, ToPropMap(changed))[field]
  <2> DEFINE name == NameOf[field]
  <2>1. field \in DOMAIN node /\ field \in DOMAIN fresh
    BY <1>1, <1>2
  <2>2. DOMAIN ToPropMap(update) = DOMAIN update /\ DOMAIN ToPropMap(dict) = DOMAIN dict
          /\ DOMAIN ToPropMap(changed) = DOMAIN update \cup DOMAIN dict
    BY DEF ToPropMap
  <2>3. node[field] = WithProperties(fresh, ToPropMap(dict))[field]
    BY DEF DecodedFrom
  <2>4. CASE name \in DOMAIN update
    <3> DEFINE value == ToPropValue(update[name])
    <3>1. ToPropMap(update)[name] = value /\ ToPropMap(changed)[name] = value
      BY <2>4 DEF ToPropMap
    <3> HIDE DEF changed
    <3>2. field = "shortcut" => value[1] = "StringLists"
      BY <2>4 DEF NameOf
    <3> HIDE DEF value, fresh
    <3>3. FieldValue(node, field, value) = FieldValue(fresh, field, value)
      BY <3>2, ValueDecides
    <3>4. patched[field] = FieldValue(node, field, value)
      BY <2>1, <2>2, <2>4, <3>1 DEF WithProperties
    <3>5. WithProperties(fresh, ToPropMap(changed))[field] = FieldValue(fresh, field, value)
      BY <2>1, <2>2, <2>4, <3>1 DEF WithProperties
    <3> QED BY <3>3, <3>4, <3>5
  <2>5. CASE name \notin DOMAIN update
    <3>1. patched[field] = node[field]
      BY <2>1, <2>2, <2>5 DEF WithProperties
    <3>2. name \in DOMAIN dict => ToPropMap(changed)[name] = ToPropMap(dict)[name]
      BY <2>5 DEF ToPropMap
    <3> HIDE DEF changed, fresh
    <3>3. WithProperties(fresh, ToPropMap(changed))[field] = WithProperties(fresh, ToPropMap(dict))[field]
      BY <2>1, <2>2, <2>5, <3>2 DEF WithProperties
    <3> QED BY <2>3, <3>1, <3>3
  <2> QED BY <2>4, <2>5
<1> HIDE DEF patched, changed
<1>5. DecodedFrom(patched, changed)
  BY <1>1, <1>3, <1>4 DEF DecodedFrom
<1> QED BY <1>3, <1>5 DEF patched, changed

(* Resetting properties of a node is decoding it anew from the dictionary  *)
(* without them (menu.rs without_property): what is absent has the default *)
(* that is fallen back to.                                                 *)
THEOREM ResettingIsDecoding ==
  ASSUME NEW node, NEW dict, NEW names, DecodedFrom(node, dict)
  PROVE  LET reset == WithoutProperties(node, names)
         IN  /\ DecodedFrom(reset, [name \in DOMAIN dict \ names |-> dict[name]])
             /\ reset.id = node.id /\ reset.children = node.children
<1> DEFINE reset == WithoutProperties(node, names)
           left == [name \in DOMAIN dict \ names |-> dict[name]]
           fresh == NewNode(node.id)
<1>1. DOMAIN node = DOMAIN fresh
  BY DEF DecodedFrom
<1>2. /\ DOMAIN NameOf \subseteq DOMAIN node
      /\ "id" \in DOMAIN node \ DOMAIN NameOf /\ "children" \in DOMAIN node \ DOMAIN NameOf
  BY <1>1, FieldsOfNodes
<1>3. DOMAIN reset = DOMAIN node /\ reset.id = node.id /\ reset.children = node.children
  BY <1>2 DEF WithoutProperties
<1>4. ASSUME NEW field \in DOMAIN NameOf
      PROVE  reset[field] = WithProperties(fresh, ToPropMap(left))[field]
  <2> DEFINE name == NameOf[field]
  <2>1. field \in DOMAIN node /\ field \in DOMAIN fresh
    BY <1>1, <1>2
  <2>2. /\ DOMAIN ToPropMap(dict) = DOMAIN dict /\ DOMAIN ToPropMap(left) = DOMAIN dict \ names
        /\ name \in DOMAIN left => ToPropMap(left)[name] = ToPropMap(dict)[name]
    BY DEF ToPropMap
  <2>3. node[field] = WithProperties(fresh, ToPropMap(dict))[field]
    BY DEF DecodedFrom
  <2> HIDE DEF left
  <2>4. CASE name \in names
    <3>1. reset[field] = fresh[field]
      BY <2>1, <2>4 DEF WithoutProperties
    <3> HIDE DEF fresh
    <3>2. WithProperties(fresh, ToPropMap(left))[field] = fresh[field]
      BY <2>1, <2>2, <2>4 DEF WithProperties
    <3> QED BY <3>1, <3>2
  <2>5. CASE name \notin names
    <3>1. reset[field] = node[field]
      BY <2>1, <2>5 DEF WithoutProperties
    <3> HIDE DEF fresh
    <3>2. DOMAIN left = DOMAIN dict \ names
      BY DEF left
    <3>3. WithProperties(fresh, ToPropMap(left))[field] = WithProperties(fresh, ToPropMap(dict))[field]
      BY <2>1, <2>2, <2>5, <3>2 DEF WithProperties
    <3> QED BY <2>3, <3>1, <3>3
  <2> QED BY <2>4, <2>5
<1> HIDE DEF reset, left
<1>5. DecodedFrom(reset, left)
  BY <1>1, <1>3, <1>4 DEF DecodedFrom
<1> QED BY <1>3, <1>5 DEF reset, left

-----------------------------------------------------------------------------
(* A menu there was at some time.                                          *)
PastMenu(m) == m \in Paths \X Nat /\ m[2] <= version[m[1]]

Trees == {NoMenu} \cup (Paths \X Nat)

ATask == [state : {"none", "subscribing", "listening", "fetching", "fetched"},
          path : Paths, signals : Nat, tree : Trees]

ACall == [state : {"idle", "asking", "fetched", "stored"}, path : Paths, tree : Trees]

PathsOK ==
  /\ path \in Paths /\ storePath \in Paths /\ followed \in Paths /\ current \in Tasks
  /\ version \in [Paths -> Nat]

TasksOK ==
  /\ task \in [Tasks -> ATask]
  /\ \A t \in Tasks :
       /\ task[t].state = "fetched" => PastMenu(task[t].tree)
       /\ ~Subscribed(t) => task[t].signals = 0

CallsOK ==
  /\ call \in [Calls -> ACall]
  /\ \A c \in Calls : call[c].state = "fetched" => PastMenu(call[c].tree)

CacheOK == cache = NoMenu \/ PastMenu(cache)

TrafficOK ==
  /\ owed \in Nat /\ missed \in BOOLEAN
  /\ answers \in Seq(Trees)

MenuTypeOK == PathsOK /\ TasksOK /\ CallsOK /\ CacheOK /\ TrafficOK

(* The item task has its own menu task follow the menu it read of last.    *)
TaskFollows == task[current].path = followed

(* A menu task is going to store the menu there is.                        *)
FreshTask(t) ==
  /\ task[t].path = path
  /\ \/ task[t].signals > 0 \/ task[t].state = "fetching"
     \/ task[t].state = "fetched" /\ task[t].tree = Menu(path)

FreshCall(c) ==
  \/ call[c].state = "asking" /\ call[c].path = path
  \/ call[c].state = "fetched" /\ call[c].tree = Menu(path)

(* The last menu on its way to the panel is the one there is.              *)
LastIsCurrent ==
  \/ \E n \in DOMAIN answers :
       /\ answers[n] = Menu(path)
       /\ \A m \in DOMAIN answers : m > n => answers[m] = NoMenu
  \/ shown = Menu(path) /\ \A m \in DOMAIN answers : answers[m] = NoMenu

Stored(c) == call[c].state = "stored"

(* The panel is going to ask, or a call to read what there is.             *)
Asked == owed > 0 \/ \E c \in Calls : FreshCall(c)

(* What is cached and current is taken to the panel.                       *)
CurrentIsDelivered ==
  cache = Menu(path) => Asked \/ LastIsCurrent \/ \E c \in Calls : Stored(c)

Pending == Asked \/ \E t \in Tasks : FreshTask(t)

Settled ==
  /\ cache \in {NoMenu, Menu(path)}
  /\ \A c \in Calls : Stored(c) => cache = Menu(path)
  /\ LastIsCurrent \/ \E c \in Calls : Stored(c)

Heard == storePath = path /\ CurrentIsDelivered /\ (Pending \/ Settled)

MenuInv == MenuTypeOK /\ TaskFollows /\ (~missed /\ ~Overtaking => Heard)

-----------------------------------------------------------------------------
LEMMA MenusAreMenus ==
  ASSUME PathsOK, NEW p \in Paths
  PROVE  PastMenu(Menu(p)) /\ Menu(p) # NoMenu /\ Menu(p) \in Paths \X Nat
<1>1. Menu(p) = <<p, version[p]>> /\ version[p] \in Nat
  BY DEF Menu, PathsOK
<1>2. Menu(p) \in Paths \X Nat /\ Menu(p)[1] = p /\ Menu(p)[2] = version[p]
  BY <1>1
<1> QED BY <1>1, <1>2 DEF PastMenu, NoMenu

(* One task moves.                                                         *)
LEMMA TaskMoves ==
  ASSUME TasksOK, UNCHANGED version,
         NEW t \in Tasks, NEW new \in ATask,
         task' = [task EXCEPT ![t] = new],
         new.state = "fetched" => PastMenu(new.tree),
         new.state \notin {"listening", "fetching", "fetched"} => new.signals = 0
  PROVE  TasksOK'
<1>1. task' \in [Tasks -> ATask] /\ task'[t] = new
        /\ \A s \in Tasks : s # t => task'[s] = task[s]
  BY DEF TasksOK
<1>2. \A m : PastMenu(m)' <=> PastMenu(m)
  BY DEF PastMenu
<1>3. ASSUME NEW s \in Tasks
      PROVE  /\ (task[s].state = "fetched" => PastMenu(task[s].tree))'
             /\ ~Subscribed(s)' => task'[s].signals = 0
  <2>1. CASE s = t
    BY <1>1, <1>2, <2>1 DEF Subscribed, PastMenu
  <2>2. CASE s # t
    BY <1>1, <1>2, <2>2 DEF Subscribed, TasksOK, PastMenu
  <2> QED BY <2>1, <2>2
<1> QED BY <1>1, <1>3 DEF TasksOK

(* One call moves.                                                         *)
LEMMA CallMoves ==
  ASSUME CallsOK, UNCHANGED version,
         NEW c \in Calls, NEW new \in ACall,
         call' = [call EXCEPT ![c] = new],
         new.state = "fetched" => PastMenu(new.tree)
  PROVE  CallsOK'
<1>1. call' \in [Calls -> ACall] /\ call'[c] = new
        /\ \A d \in Calls : d # c => call'[d] = call[d]
  BY DEF CallsOK
<1>3. ASSUME NEW d \in Calls
      PROVE  (call[d].state = "fetched" => PastMenu(call[d].tree))'
  <2>1. CASE d = c
    BY <1>1, <2>1 DEF PastMenu
  <2>2. CASE d # c
    BY <1>1, <2>2 DEF CallsOK, PastMenu
  <2> QED BY <2>1, <2>2
<1> QED BY <1>1, <1>3 DEF CallsOK

LEMMA NothingMoves ==
  ASSUME MenuTypeOK
  PROVE  /\ UNCHANGED <<path, storePath, followed, current, version>> => PathsOK'
         /\ UNCHANGED <<version, task>> => TasksOK'
         /\ UNCHANGED <<version, call>> => CallsOK'
         /\ UNCHANGED <<version, cache>> => CacheOK'
         /\ UNCHANGED <<owed, missed, answers>> => TrafficOK'
<1> USE DEF MenuTypeOK
<1>1. UNCHANGED <<path, storePath, followed, current, version>> => PathsOK'
  BY DEF PathsOK
<1>2. UNCHANGED <<version, task>> => TasksOK'
  BY DEF TasksOK, Subscribed, PastMenu
<1>3. UNCHANGED <<version, call>> => CallsOK'
  BY DEF CallsOK, PastMenu
<1>4. UNCHANGED <<version, cache>> => CacheOK'
  BY DEF CacheOK, PastMenu
<1>5. UNCHANGED <<owed, missed, answers>> => TrafficOK'
  BY DEF TrafficOK
<1> QED BY <1>1, <1>2, <1>3, <1>4, <1>5

(* A menu there was is still one after the next change of any menu.        *)
LEMMA PastIsKept ==
  ASSUME PathsOK, NEW p \in Paths, version' = [version EXCEPT ![p] = @ + 1], NEW m, PastMenu(m)
  PROVE  PastMenu(m)' /\ m # Menu(p)'
<1>1. version' \in [Paths -> Nat] /\ \A q \in Paths : version'[q] = IF q = p THEN version[q] + 1 ELSE version[q]
  BY DEF PathsOK
<1>2. m \in Paths \X Nat /\ m[1] \in Paths /\ m[2] \in Nat /\ m[2] <= version[m[1]]
  BY DEF PastMenu
<1>3. version[m[1]] \in Nat /\ version[p] \in Nat
  BY <1>2 DEF PathsOK
<1>4. m[2] <= version'[m[1]]
  BY <1>1, <1>2, <1>3
<1>5. m # <<p, version'[p]>>
  <2> SUFFICES ASSUME m = <<p, version'[p]>> PROVE FALSE
    OBVIOUS
  <2>1. m[1] = p /\ m[2] = version[p] + 1
    BY <1>1
  <2> QED BY <1>2, <1>3, <2>1
<1> QED BY <1>2, <1>4, <1>5 DEF PastMenu, Menu

(* One answer is delivered; under FIFO, the first.                         *)
LEMMA Removed ==
  ASSUME NEW S, NEW s \in Seq(S), NEW n \in DOMAIN s
  PROVE  /\ RemoveAt(s, n) \in Seq(S)
         /\ n = 1 => /\ DOMAIN RemoveAt(s, 1) = 1 .. Len(s) - 1
                     /\ \A m \in 1 .. Len(s) - 1 : RemoveAt(s, 1)[m] = s[m + 1]
<1>1. Len(s) \in Nat /\ DOMAIN s = 1 .. Len(s)
  BY LenProperties
<1> DEFINE k == Len(s)
           before == SubSeq(s, 1, n - 1)
           behind == SubSeq(s, n + 1, k)
<1> HIDE DEF k
<1>2. \A i \in 1 .. k : s[i] \in S
  BY <1>1, ElementOfSeq DEF k
<1>3. before \in Seq(S) /\ Len(before) = n - 1
  <2>1. n \in 1 .. k /\ k \in Nat
    BY <1>1 DEF k
  <2>2. before = [i \in 1 .. n - 1 |-> s[i]]
    BY <2>1 DEF k
  <2> QED BY <1>2, <2>1, <2>2, IsASeq, LenProperties
<1>4. behind \in Seq(S) /\ Len(behind) = k - n /\ \A i \in 1 .. k - n : behind[i] = s[n + i]
  BY <1>1, <1>2, SubSeqProperties DEF k
<1> HIDE DEF before, behind
<1>5. RemoveAt(s, n) = before \o behind
  BY DEF RemoveAt, before, behind, k
<1>6. before \o behind \in Seq(S)
  BY <1>3, <1>4, ConcatProperties
<1>7. ASSUME n = 1
      PROVE  RemoveAt(s, 1) = behind /\ Len(behind) = k - 1
  <2>1. before = <<>>
    BY <1>3, <1>7, EmptySeq
  <2>2. <<>> \o behind = behind
    BY <1>4, ConcatEmptySeq
  <2> QED BY <1>4, <1>5, <1>7, <2>1, <2>2
<1>8. DOMAIN behind = 1 .. Len(behind)
  BY <1>4, LenProperties
<1>9. ASSUME n = 1, NEW m \in 1 .. k - 1 PROVE behind[m] = s[m + 1]
  BY <1>1, <1>4, <1>9 DEF k
<1> QED BY <1>5, <1>6, <1>7, <1>8, <1>9 DEF k

-----------------------------------------------------------------------------
LEMMA TypesKept ==
  ASSUME MenuTypeOK, FirstsExist, [Next]_vars
  PROVE  MenuTypeOK'
<1> USE DEF MenuTypeOK
<1>1. ASSUME NEW p \in Paths, ChangeMenu(p) PROVE MenuTypeOK'
  <2>1. /\ version' = [version EXCEPT ![p] = @ + 1]
        /\ UNCHANGED <<path, cache, call, owed, answers, storePath, followed, current>>
    BY <1>1 DEF ChangeMenu, panelVars, itemVars
  <2>2. PathsOK'
    BY <2>1 DEF PathsOK
  <2>3. CallsOK' /\ CacheOK'
    BY <2>1, PastIsKept DEF CallsOK, CacheOK
  <2>4. TasksOK'
    <3>1. \A t \in Tasks :
            task'[t] = IF Subscribed(t) /\ task[t].path = p
                         THEN [task[t] EXCEPT !.signals = @ + 1] ELSE task[t]
      BY <1>1 DEF ChangeMenu
    <3>2. \A t \in Tasks : (IF Subscribed(t) /\ task[t].path = p
                              THEN [task[t] EXCEPT !.signals = @ + 1] ELSE task[t]) \in ATask
      BY DEF TasksOK, ATask
    <3>3. \A t \in Tasks : /\ task'[t].state = task[t].state
                           /\ task'[t].tree = task[t].tree
                           /\ ~Subscribed(t) => task'[t] = task[t]
      BY <3>1 DEF TasksOK, ATask
    <3>4. task' \in [Tasks -> ATask]
      BY <1>1, <3>2 DEF ChangeMenu
    <3>5. \A m : PastMenu(m) => PastMenu(m)'
      BY <2>1, PastIsKept
    <3>6. ASSUME NEW t \in Tasks
          PROVE  /\ (task[t].state = "fetched" => PastMenu(task[t].tree))'
                 /\ (~Subscribed(t) => task[t].signals = 0)'
      <4>1. /\ task'[t].state = task[t].state /\ task'[t].tree = task[t].tree
            /\ ~Subscribed(t) => task'[t] = task[t]
        BY <3>3
      <4>2. /\ task[t].state = "fetched" => PastMenu(task[t].tree)
            /\ ~Subscribed(t) => task[t].signals = 0
        BY DEF TasksOK
      <4>3. Subscribed(t)' <=> Subscribed(t)
        BY <4>1 DEF Subscribed
      <4>4. PastMenu(task[t].tree) => PastMenu(task[t].tree)'
        BY <3>5, <4>1 DEF PastMenu
      <4> QED BY <4>1, <4>2, <4>3, <4>4
    <3> QED BY <3>4, <3>6 DEF TasksOK
  <2>5. TrafficOK'
    <3>1. missed' \in BOOLEAN
      BY <1>1 DEF ChangeMenu, TrafficOK
    <3> QED BY <2>1, <3>1 DEF TrafficOK
  <2> QED BY NothingMoves, <2>2, <2>3, <2>4, <2>5
<1>2. ASSUME NEW p \in Paths, SwapMenu(p) PROVE MenuTypeOK'
  <2>1. PathsOK'
    BY <1>2 DEF SwapMenu, PathsOK
  <2> QED BY NothingMoves, <1>2, <2>1 DEF SwapMenu, TrafficOK, panelVars
<1>3. ASSUME RefreshProps PROVE MenuTypeOK'
  <2>1. UNCHANGED <<path, version, call, owed, answers>>
    BY <1>3 DEF RefreshProps, panelVars
  <2>2. CASE followed = path
    <3>1. UNCHANGED <<cache, task, followed, current, missed>> /\ storePath' = path
      BY <1>3, <2>2 DEF RefreshProps
    <3> QED BY NothingMoves, <2>1, <3>1 DEF PathsOK
  <2>3. CASE followed # path
    <3>1. /\ followed' = path /\ current' = current /\ storePath' = path
          /\ task' = [task EXCEPT ![current] = TaskFor(path)]
          /\ \/ cache' = cache /\ missed' = missed
             \/ task[current].state = "fetched" /\ cache' = task[current].tree /\ missed' = TRUE
      BY <1>3, <2>3 DEF RefreshProps
    <3>2. PathsOK'
      BY <2>1, <3>1 DEF PathsOK
    <3>3. TasksOK'
      <4>1. /\ TaskFor(path) \in ATask /\ TaskFor(path).state = "subscribing"
            /\ TaskFor(path).signals = 0
        BY FirstsExist DEF TaskFor, NewTask, NoTask, ATask, Trees, PathsOK
      <4> QED BY <2>1, <3>1, <4>1, TaskMoves DEF PathsOK
    <3>4. CacheOK'
      BY <2>1, <3>1 DEF CacheOK, PathsOK, TasksOK, PastMenu
    <3>5. TrafficOK'
      BY <2>1, <3>1 DEF TrafficOK
    <3> QED BY NothingMoves, <2>1, <3>2, <3>3, <3>4, <3>5
  <2> QED BY NothingMoves, <2>2, <2>3
<1>4. ASSUME Probe PROVE MenuTypeOK'
  BY NothingMoves, <1>4 DEF Probe, PathsOK, panelVars
<1>5. ASSUME Reregister PROVE MenuTypeOK'
  <2>1. PICK t \in Tasks : /\ task[t].state = "none"
                           /\ current' = t /\ task' = [task EXCEPT ![t] = TaskFor(path)]
    BY <1>5 DEF Reregister
  <2>2. /\ storePath' = path /\ followed' = path /\ cache' = NoMenu
        /\ missed' = (missed \/ \E c \in Calls : call[c].state = "stored")
        /\ UNCHANGED <<path, version, call, owed, answers>>
    BY <1>5 DEF Reregister, panelVars
  <2>3. PathsOK'
    BY <2>1, <2>2 DEF PathsOK
  <2>4. TasksOK'
    <3>1. /\ TaskFor(path) \in ATask /\ TaskFor(path).state = "subscribing"
          /\ TaskFor(path).signals = 0
      BY FirstsExist DEF TaskFor, NewTask, NoTask, ATask, Trees, PathsOK
    <3> QED BY <2>1, <2>2, <3>1, TaskMoves
  <2>5. CacheOK' /\ TrafficOK'
    BY <2>2 DEF CacheOK, TrafficOK
  <2> QED BY NothingMoves, <2>2, <2>3, <2>4, <2>5
<1>6. ASSUME Deliver PROVE MenuTypeOK'
  <2>1. PICK n \in DOMAIN answers : answers' = RemoveAt(answers, n)
    BY <1>6 DEF Deliver
  <2>2. answers' \in Seq(Trees)
    BY <2>1, Removed DEF TrafficOK
  <2> QED BY NothingMoves, <1>6, <2>2 DEF Deliver, itemVars, TrafficOK
<1>7. ASSUME NEW t \in Tasks, Subscribe(t) PROVE MenuTypeOK'
  <2> DEFINE new == [task[t] EXCEPT !.state = "listening"]
  <2>1. /\ task[t].state = "subscribing" /\ task' = [task EXCEPT ![t] = new]
        /\ UNCHANGED <<path, version, cache, call, owed, answers, missed,
                       storePath, followed, current>>
    BY <1>7 DEF Subscribe, SetTask, TasksOK, ATask, panelVars, itemVars
  <2>2. new \in ATask /\ new.state = "listening"
    BY DEF TasksOK, ATask
  <2> HIDE DEF new
  <2> QED BY NothingMoves, <2>1, <2>2, TaskMoves
<1>8. ASSUME NEW t \in Tasks, Hear(t) PROVE MenuTypeOK'
  <2> DEFINE new == [task[t] EXCEPT !.state = "fetching", !.signals = @ - 1]
  <2>1. /\ task[t].state = "listening" /\ task[t].signals > 0
        /\ task' = [task EXCEPT ![t] = new]
        /\ UNCHANGED <<path, version, cache, call, owed, answers, missed,
                       storePath, followed, current>>
    BY <1>8 DEF Hear, TasksOK, ATask, panelVars, itemVars
  <2>2. new \in ATask /\ new.state = "fetching"
    <3>1. task[t] \in ATask /\ task[t].signals - 1 \in Nat
      BY <2>1 DEF TasksOK, ATask
    <3> QED BY <3>1 DEF ATask
  <2> HIDE DEF new
  <2> QED BY NothingMoves, <2>1, <2>2, TaskMoves
<1>9. ASSUME NEW t \in Tasks, TaskFetch(t) PROVE MenuTypeOK'
  <2> DEFINE new == [task[t] EXCEPT !.state = "fetched", !.tree = Menu(task[t].path)]
  <2>1. /\ task' = [task EXCEPT ![t] = new]
        /\ UNCHANGED <<path, version, cache, call, owed, answers, missed,
                       storePath, followed, current>>
    BY <1>9 DEF TaskFetch, TasksOK, ATask, panelVars, itemVars
  <2>2. PastMenu(Menu(task[t].path)) /\ Menu(task[t].path) \in Trees
    BY MenusAreMenus DEF TasksOK, ATask, Trees
  <2>3. new \in ATask /\ new.state = "fetched" /\ new.tree = Menu(task[t].path)
    BY <2>2 DEF TasksOK, ATask
  <2> HIDE DEF new
  <2> QED BY NothingMoves, <2>1, <2>2, <2>3, TaskMoves
<1>10. ASSUME NEW t \in Tasks, TaskFetchFails(t) PROVE MenuTypeOK'
  <2> DEFINE new == [task[t] EXCEPT !.state = "listening"]
  <2>1. /\ task' = [task EXCEPT ![t] = new] /\ missed' = TRUE
        /\ UNCHANGED <<path, version, cache, call, owed, answers, storePath, followed, current>>
    BY <1>10 DEF TaskFetchFails, SetTask, TasksOK, ATask, panelVars, itemVars
  <2>2. new \in ATask /\ new.state = "listening"
    BY DEF TasksOK, ATask
  <2> HIDE DEF new
  <2> QED BY NothingMoves, <2>1, <2>2, TaskMoves DEF TrafficOK
<1>11. ASSUME NEW t \in Tasks, TaskStore(t) PROVE MenuTypeOK'
  <2> DEFINE new == [task[t] EXCEPT !.state = "listening", !.tree = NoMenu]
  <2>1. /\ task[t].state = "fetched" /\ task' = [task EXCEPT ![t] = new]
        /\ cache' = task[t].tree /\ owed' \in {owed, owed + 1}
        /\ UNCHANGED <<path, version, call, answers, missed, storePath, followed, current>>
    BY <1>11 DEF TaskStore, UpdateMenu, TasksOK, ATask, panelVars, itemVars
  <2>2. new \in ATask /\ new.state = "listening"
    BY DEF TasksOK, ATask, Trees
  <2> HIDE DEF new
  <2>3. TasksOK'
    BY <2>1, <2>2, TaskMoves
  <2>4. CacheOK' /\ TrafficOK'
    BY <2>1 DEF CacheOK, TasksOK, PastMenu, TrafficOK
  <2> QED BY NothingMoves, <2>1, <2>3, <2>4
<1>12. ASSUME NEW c \in Calls, Ask(c) PROVE MenuTypeOK'
  <2> DEFINE new == [state |-> "asking", path |-> storePath, tree |-> NoMenu]
  <2>1. /\ owed > 0 /\ owed' = owed - 1 /\ call' = [call EXCEPT ![c] = new]
        /\ UNCHANGED <<path, version, cache, task, answers, missed, storePath, followed, current>>
    BY <1>12 DEF Ask, panelVars, itemVars
  <2>2. new \in ACall /\ new.state = "asking"
    BY DEF PathsOK, ACall, Trees
  <2> HIDE DEF new
  <2>3. CallsOK'
    BY <2>1, <2>2, CallMoves
  <2>4. TrafficOK'
    BY <2>1 DEF TrafficOK
  <2> QED BY NothingMoves, <2>1, <2>3, <2>4
<1>13. ASSUME NEW c \in Calls, CallFetch(c) PROVE MenuTypeOK'
  <2> DEFINE new == [call[c] EXCEPT !.state = "fetched", !.tree = Menu(call[c].path)]
  <2>1. /\ call' = [call EXCEPT ![c] = new]
        /\ UNCHANGED <<path, version, cache, task, owed, answers, missed,
                       storePath, followed, current>>
    BY <1>13 DEF CallFetch, CallsOK, ACall, panelVars, itemVars
  <2>2. PastMenu(Menu(call[c].path)) /\ Menu(call[c].path) \in Trees
    BY MenusAreMenus DEF CallsOK, ACall, Trees
  <2>3. new \in ACall /\ new.state = "fetched" /\ new.tree = Menu(call[c].path)
    BY <2>2 DEF CallsOK, ACall
  <2> HIDE DEF new
  <2> QED BY NothingMoves, <2>1, <2>2, <2>3, CallMoves
<1>14. ASSUME NEW c \in Calls, CallStore(c) PROVE MenuTypeOK'
  <2> DEFINE new == [call[c] EXCEPT !.state = "stored"]
  <2>1. /\ call[c].state = "fetched" /\ call' = [call EXCEPT ![c] = new]
        /\ cache' = call[c].tree /\ owed' \in {owed, owed + 1}
        /\ UNCHANGED <<path, version, task, answers, missed, storePath, followed, current>>
    BY <1>14 DEF CallStore, UpdateMenu, SetCall, CallsOK, ACall, panelVars, itemVars
  <2>2. new \in ACall /\ new.state = "stored"
    BY DEF CallsOK, ACall
  <2> HIDE DEF new
  <2>3. CallsOK'
    BY <2>1, <2>2, CallMoves
  <2>4. CacheOK' /\ TrafficOK'
    BY <2>1 DEF CacheOK, CallsOK, PastMenu, TrafficOK
  <2> QED BY NothingMoves, <2>1, <2>3, <2>4
<1>15. ASSUME NEW c \in Calls, CallFetchFails(c) PROVE MenuTypeOK'
  <2> DEFINE new == [call[c] EXCEPT !.state = "stored"]
  <2>1. /\ call' = [call EXCEPT ![c] = new] /\ missed' = TRUE
        /\ UNCHANGED <<path, version, cache, task, owed, answers, storePath, followed, current>>
    BY <1>15 DEF CallFetchFails, SetCall, CallsOK, ACall, panelVars, itemVars
  <2>2. new \in ACall /\ new.state = "stored"
    BY DEF CallsOK, ACall
  <2> HIDE DEF new
  <2> QED BY NothingMoves, <2>1, <2>2, CallMoves DEF TrafficOK
<1>16. ASSUME NEW c \in Calls, Reply(c) PROVE MenuTypeOK'
  <2>1. /\ call' = [call EXCEPT ![c] = Idle] /\ answers' = Append(answers, cache)
        /\ UNCHANGED <<path, version, cache, task, owed, missed, storePath, followed, current>>
    BY <1>16 DEF Reply, itemVars
  <2>2. Idle \in ACall /\ Idle.state = "idle"
    BY FirstsExist DEF Idle, ACall, Trees
  <2>3. CallsOK'
    BY <2>1, <2>2, CallMoves
  <2>4. TrafficOK'
    <3>1. cache \in Trees
      BY DEF CacheOK, PastMenu, Trees
    <3>2. Append(answers, cache) \in Seq(Trees)
      BY <3>1, AppendProperties DEF TrafficOK
    <3> QED BY <2>1, <3>2 DEF TrafficOK
  <2> QED BY NothingMoves, <2>1, <2>3, <2>4
<1>17. CASE UNCHANGED vars
  BY NothingMoves, <1>17 DEF vars, itemVars, panelVars
<1> QED
  BY <1>1, <1>2, <1>3, <1>4, <1>5, <1>6, <1>7, <1>8, <1>9, <1>10, <1>11, <1>12, <1>13, <1>14,
     <1>15, <1>16, <1>17 DEF Next, Work, Serve
-----------------------------------------------------------------------------
(* Nothing but the item task itself makes it follow another menu, and only *)
(* together with a new menu task (item.rs, refresh_props and run_item).    *)
LEMMA FollowingKept ==
  ASSUME MenuTypeOK, TaskFollows, [Next]_vars
  PROVE  TaskFollows'
<1>1. task \in [Tasks -> ATask] /\ current \in Tasks /\ path \in Paths
  BY DEF MenuTypeOK, PathsOK, TasksOK
<1>2. ASSUME UNCHANGED <<current, followed>>,
             \A t \in Tasks : task'[t].path = task[t].path
      PROVE  TaskFollows'
  BY <1>1, <1>2 DEF TaskFollows
<1>3. ASSUME NEW t \in Tasks, task' = [task EXCEPT ![t] = TaskFor(path)],
             current' = t, followed' = path
      PROVE  TaskFollows'
  BY <1>1, <1>3 DEF TaskFollows, TaskFor, NewTask, NoTask
<1>4. CASE RefreshProps
  <2>1. CASE followed = path
    BY <1>2, <1>4, <2>1 DEF RefreshProps
  <2>2. CASE followed # path
    BY <1>1, <1>3, <1>4, <2>2 DEF RefreshProps
  <2> QED BY <2>1, <2>2
<1>5. CASE Reregister
  BY <1>3, <1>5 DEF Reregister
<1>6. ASSUME NEW p \in Paths, ChangeMenu(p) \/ SwapMenu(p) PROVE TaskFollows'
  <2>1. UNCHANGED <<current, followed>>
    BY <1>6 DEF ChangeMenu, SwapMenu, itemVars
  <2>2. \A t \in Tasks : task'[t].path = task[t].path
    BY <1>1, <1>6 DEF ChangeMenu, SwapMenu, ATask
  <2> QED BY <1>2, <2>1, <2>2
<1>7. ASSUME NEW t \in Tasks, Work(t) \/ TaskFetchFails(t) PROVE TaskFollows'
  <2>1. UNCHANGED <<current, followed>>
    BY <1>7 DEF Work, Subscribe, Hear, TaskFetch, TaskStore, TaskFetchFails, itemVars
  <2>2. \A s \in Tasks : task'[s].path = task[s].path
    BY <1>1, <1>7 DEF Work, Subscribe, Hear, TaskFetch, TaskStore, TaskFetchFails, SetTask, ATask
  <2> QED BY <1>2, <2>1, <2>2
<1>8. ASSUME UNCHANGED <<task, current, followed>> PROVE TaskFollows'
  BY <1>2, <1>8
<1>9. CASE Probe
  BY <1>8, <1>9 DEF Probe
<1>10. CASE Deliver
  BY <1>8, <1>10 DEF Deliver, itemVars
<1>11. ASSUME NEW c \in Calls, Ask(c) \/ Serve(c) \/ CallFetchFails(c) PROVE TaskFollows'
  BY <1>8, <1>11 DEF Ask, Serve, CallFetch, CallStore, Reply, CallFetchFails, itemVars
<1>12. CASE UNCHANGED vars
  BY <1>8, <1>12 DEF vars, itemVars
<1> QED BY <1>4, <1>5, <1>6, <1>7, <1>9, <1>10, <1>11, <1>12 DEF Next

-----------------------------------------------------------------------------
(* What is heard stays heard while fresh tasks and calls stay fresh and no *)
(* call gets its answer ready.                                             *)
LEMMA HeardStays ==
  ASSUME Heard,
         UNCHANGED <<path, storePath, cache, owed, answers, shown>>, Menu(path)' = Menu(path),
         \A t \in Tasks : FreshTask(t) => FreshTask(t)',
         \A c \in Calls : (FreshCall(c) => FreshCall(c)') /\ (Stored(c)' <=> Stored(c))
  PROVE  Heard'
<1>1. Asked => Asked'
  BY DEF Asked
<1>2. LastIsCurrent' <=> LastIsCurrent
  BY DEF LastIsCurrent
<1>3. CurrentIsDelivered'
  BY <1>1, <1>2 DEF Heard, CurrentIsDelivered
<1>4. Pending => Pending'
  BY <1>1 DEF Pending
<1>5. Settled => Settled'
  BY <1>2 DEF Settled
<1> QED BY <1>3, <1>4, <1>5 DEF Heard

(* When the panel is to ask, nothing else matters.                         *)
LEMMA AskedIsHeard ==
  ASSUME Heard, UNCHANGED <<path, storePath>>, Asked'
  PROVE  Heard'
BY DEF Heard, CurrentIsDelivered, Pending

(* An answer that is read of what is current is the last of the answers.   *)
LEMMA CurrentIsLast ==
  ASSUME MenuTypeOK, cache = Menu(path), answers' = Append(answers, cache),
         UNCHANGED <<path, version>>
  PROVE  LastIsCurrent'
<1>1. /\ answers \in Seq(Trees) /\ cache \in Trees
  BY DEF MenuTypeOK, TrafficOK, CacheOK, PastMenu, Trees
<1>2. /\ Len(answers) \in Nat /\ answers' \in Seq(Trees)
      /\ Len(answers') = Len(answers) + 1 /\ answers'[Len(answers) + 1] = cache
  BY <1>1, AppendProperties, LenProperties
<1>3. DOMAIN answers' = 1 .. Len(answers) + 1
  BY <1>2, LenProperties
<1>4. Menu(path)' = cache
  BY DEF Menu
<1> DEFINE n == Len(answers) + 1
<1>5. n \in DOMAIN answers' /\ answers'[n] = Menu(path)'
  BY <1>2, <1>3, <1>4
<1>6. \A m \in DOMAIN answers' : ~(m > n)
  BY <1>2, <1>3
<1> QED BY <1>5, <1>6 DEF LastIsCurrent

(* Taking answers in order, the panel ends with the last.                  *)
LEMMA InOrder ==
  ASSUME MenuTypeOK, ~Overtaking, Deliver, LastIsCurrent
  PROVE  LastIsCurrent'
<1>1. /\ 1 \in DOMAIN answers /\ answers' = RemoveAt(answers, 1)
      /\ shown' = IF answers[1] = NoMenu THEN shown ELSE answers[1]
      /\ UNCHANGED <<path, version>>
  BY DEF Deliver
<1>2. answers \in Seq(Trees) /\ path \in Paths
  BY DEF MenuTypeOK, TrafficOK, PathsOK
<1>3. Len(answers) \in Nat /\ DOMAIN answers = 1 .. Len(answers)
  BY <1>2, LenProperties
<1> DEFINE k == Len(answers)
<1> HIDE DEF k
<1>4. DOMAIN answers' = 1 .. k - 1 /\ \A m \in 1 .. k - 1 : answers'[m] = answers[m + 1]
  BY <1>1, <1>2, Removed DEF k
<1>5. Menu(path)' = Menu(path) /\ Menu(path) # NoMenu
  BY <1>1, <1>2, MenusAreMenus DEF Menu, MenuTypeOK
<1>6. CASE shown = Menu(path) /\ \A m \in DOMAIN answers : answers[m] = NoMenu
  <2>1. shown' = Menu(path)'
    BY <1>1, <1>5, <1>6
  <2>2. \A m \in DOMAIN answers' : answers'[m] = NoMenu
    BY <1>3, <1>4, <1>6 DEF k
  <2> QED BY <2>1, <2>2 DEF LastIsCurrent
<1>7. ASSUME NEW n \in DOMAIN answers, answers[n] = Menu(path),
             \A m \in DOMAIN answers : m > n => answers[m] = NoMenu
      PROVE  LastIsCurrent'
  <2>1. CASE n = 1
    <3>1. shown' = Menu(path)'
      BY <1>1, <1>5, <1>7, <2>1
    <3>2. \A m \in DOMAIN answers' : answers'[m] = NoMenu
      BY <1>3, <1>4, <1>7, <2>1 DEF k
    <3> QED BY <3>1, <3>2 DEF LastIsCurrent
  <2>2. CASE n # 1
    <3>1. n - 1 \in DOMAIN answers' /\ answers'[n - 1] = answers[n]
      BY <1>3, <1>4, <2>2 DEF k
    <3>2. \A m \in DOMAIN answers' : m > n - 1 => answers'[m] = NoMenu
      BY <1>3, <1>4, <1>7 DEF k
    <3> QED BY <1>5, <1>7, <3>1, <3>2 DEF LastIsCurrent
  <2> QED BY <2>1, <2>2
<1> QED BY <1>6, <1>7 DEF LastIsCurrent

(* The application: a change that is heard makes a menu task fresh.        *)
LEMMA ChangesAreHeard ==
  ASSUME MenuTypeOK, ~missed /\ ~Overtaking => Heard, ~missed', ~Overtaking,
         NEW p \in Paths, ChangeMenu(p)
  PROVE  Heard'
<1>1. /\ version' = [version EXCEPT ![p] = @ + 1]
      /\ UNCHANGED <<path, cache, call, owed, answers, shown, storePath>>
  BY DEF ChangeMenu, panelVars, itemVars
<1>2. task' = [t \in Tasks |-> IF Subscribed(t) /\ task[t].path = p
                                 THEN [task[t] EXCEPT !.signals = @ + 1] ELSE task[t]]
  BY DEF ChangeMenu
<1>3. task \in [Tasks -> ATask] /\ version \in [Paths -> Nat] /\ path \in Paths
  BY DEF MenuTypeOK, TasksOK, PathsOK
<1>4. CASE p = path
  <2>1. task' # task /\ storePath = path
    BY <1>4 DEF ChangeMenu
  <2>2. PICK t \in Tasks : Subscribed(t) /\ task[t].path = p
    <3> SUFFICES ASSUME \A t \in Tasks : ~(Subscribed(t) /\ task[t].path = p)
                 PROVE  task' = task
      BY <2>1
    <3>1. \A t \in Tasks : task'[t] = task[t]
      BY <1>2
    <3>2. task' = [t \in Tasks |-> task'[t]] /\ task = [t \in Tasks |-> task[t]]
      BY <1>2, <1>3
    <3> QED BY <3>1, <3>2
  <2>3. task'[t].path = path' /\ task'[t].signals > 0
    BY <1>1, <1>2, <1>3, <1>4, <2>2 DEF ATask
  <2>4. Pending'
    BY <2>3 DEF Pending, FreshTask
  <2>5. cache' # Menu(path)'
    <3>1. Menu(path)' # NoMenu
      BY <1>1, <1>3 DEF Menu, NoMenu
    <3>2. CASE cache = NoMenu
      BY <1>1, <3>1, <3>2
    <3>3. CASE PastMenu(cache)
      <4>1. cache # Menu(p)'
        BY <1>1, <3>3, PastIsKept DEF MenuTypeOK
      <4>2. Menu(p)' = Menu(path)'
        BY <1>1, <1>4 DEF Menu
      <4> QED BY <1>1, <4>1, <4>2
    <3> QED BY <3>2, <3>3 DEF MenuTypeOK, CacheOK
  <2> QED BY <1>1, <2>1, <2>4, <2>5 DEF Heard, CurrentIsDelivered
<1>5. CASE p # path
  <2>1. Heard
    BY <1>5 DEF ChangeMenu
  <2>2. Menu(path)' = Menu(path)
    BY <1>1, <1>3, <1>5 DEF Menu
  <2>3. ASSUME NEW t \in Tasks, FreshTask(t) PROVE FreshTask(t)'
    <3>1. task'[t] = task[t]
      BY <1>2, <1>5, <2>3 DEF FreshTask
    <3> QED BY <1>1, <2>2, <2>3, <3>1 DEF FreshTask
  <2>4. \A c \in Calls : (FreshCall(c) => FreshCall(c)') /\ (Stored(c)' <=> Stored(c))
    BY <1>1, <2>2 DEF FreshCall, Stored
  <2> QED BY <1>1, <2>1, <2>2, <2>3, <2>4, HeardStays
<1> QED BY <1>4, <1>5

(* One task moves and nothing else: Heard stays if it was not fresh before *)
(* or is so still.                                                         *)
LEMMA HeardByTasks ==
  ASSUME MenuTypeOK, Heard, NEW t \in Tasks, NEW new, task' = [task EXCEPT ![t] = new],
         UNCHANGED <<path, version, storePath, cache, call, owed, answers, shown>>,
         FreshTask(t) => FreshTask(t)'
  PROVE  Heard'
<1>1. Menu(path)' = Menu(path)
  BY DEF Menu
<1>2. ASSUME NEW s \in Tasks, FreshTask(s) PROVE FreshTask(s)'
  <2>1. CASE s = t
    BY <1>2, <2>1
  <2>2. CASE s # t
    <3>1. task'[s] = task[s]
      BY <2>2 DEF MenuTypeOK, TasksOK
    <3> QED BY <1>1, <1>2, <3>1 DEF FreshTask
  <2> QED BY <2>1, <2>2
<1>3. \A c \in Calls : (FreshCall(c) => FreshCall(c)') /\ (Stored(c)' <=> Stored(c))
  BY <1>1 DEF FreshCall, Stored
<1> QED BY <1>1, <1>2, <1>3, HeardStays

(* The item task: the menu task it aborts follows another menu than the    *)
(* application's, and is not fresh.                                        *)
LEMMA RefreshIsHeard ==
  ASSUME MenuTypeOK, TaskFollows, ~missed => Heard, ~missed', RefreshProps
  PROVE  Heard'
<1>1. /\ UNCHANGED <<path, version, call, owed, answers, shown>> /\ storePath' = path
  BY DEF RefreshProps, panelVars
<1>2. CASE followed = path
  <2>1. UNCHANGED <<cache, task>> /\ Heard
    BY <1>2 DEF RefreshProps
  <2>2. storePath' = storePath
    BY <1>1, <2>1 DEF Heard
  <2>3. Menu(path)' = Menu(path)
    BY <1>1 DEF Menu
  <2>4. \A t \in Tasks : FreshTask(t) => FreshTask(t)'
    BY <1>1, <2>1, <2>3 DEF FreshTask
  <2>5. \A c \in Calls : (FreshCall(c) => FreshCall(c)') /\ (Stored(c)' <=> Stored(c))
    BY <1>1, <2>3 DEF FreshCall, Stored
  <2> QED BY <1>1, <2>1, <2>2, <2>3, <2>4, <2>5, HeardStays
<1>3. CASE followed # path
  <2>1. cache' = cache /\ Heard /\ task' = [task EXCEPT ![current] = TaskFor(path)]
    BY <1>3 DEF RefreshProps
  <2>2. storePath' = storePath
    BY <1>1, <2>1 DEF Heard
  <2>3. current \in Tasks /\ ~FreshTask(current)
    BY <1>3 DEF MenuTypeOK, PathsOK, TaskFollows, FreshTask
  <2> QED BY <1>1, <2>1, <2>2, <2>3, HeardByTasks
<1> QED BY <1>2, <1>3

(* The item registers again: the menu dropped is not in any answer to come.*)
LEMMA ReregisterIsHeard ==
  ASSUME MenuTypeOK, ~missed => Heard, ~missed', Reregister
  PROVE  Heard'
<1>1. /\ UNCHANGED <<path, version, call, owed, answers, shown>> /\ storePath' = path
      /\ cache' = NoMenu
  BY DEF Reregister, panelVars
<1>2. Heard /\ \A c \in Calls : ~Stored(c)
  BY DEF Reregister, Stored, MenuTypeOK, TrafficOK
<1>3. PICK t \in Tasks : task[t].state = "none" /\ task' = [task EXCEPT ![t] = TaskFor(path)]
  BY DEF Reregister
<1>4. Menu(path)' = Menu(path) /\ Menu(path) # NoMenu
  BY <1>1, MenusAreMenus DEF Menu, MenuTypeOK, PathsOK
<1>5. ~FreshTask(t)
  BY <1>3 DEF FreshTask, MenuTypeOK, TasksOK, Subscribed, ATask
<1>6. ASSUME NEW s \in Tasks, FreshTask(s) PROVE FreshTask(s)'
  <2>1. task'[s] = task[s]
    BY <1>3, <1>5, <1>6 DEF MenuTypeOK, TasksOK
  <2> QED BY <1>1, <1>4, <1>6, <2>1 DEF FreshTask
<1>7. \A c \in Calls : (FreshCall(c) => FreshCall(c)') /\ (Stored(c)' <=> Stored(c))
  BY <1>1, <1>4 DEF FreshCall, Stored
<1>8. LastIsCurrent => LastIsCurrent'
  BY <1>1, <1>4 DEF LastIsCurrent
<1>9. CurrentIsDelivered'
  BY <1>1, <1>4 DEF CurrentIsDelivered
<1>10. Pending => Pending'
  BY <1>1, <1>6, <1>7 DEF Pending, Asked
<1>11. Settled => Settled'
  BY <1>1, <1>2, <1>7, <1>8 DEF Settled
<1> QED BY <1>1, <1>2, <1>9, <1>10, <1>11 DEF Heard

(* A menu task: a fresh one stays fresh until it stores the menu there is. *)
LEMMA TasksAreHeard ==
  ASSUME MenuTypeOK, Heard, NEW t \in Tasks, Work(t)
  PROVE  Heard'
<1>1. task \in [Tasks -> ATask] /\ (~Subscribed(t) => task[t].signals = 0)
  BY DEF MenuTypeOK, TasksOK
<1>2. UNCHANGED <<path, version, storePath, call, answers, shown>> /\ Menu(path)' = Menu(path)
  BY DEF Work, Subscribe, Hear, TaskFetch, TaskStore, panelVars, itemVars, Menu
<1>3. CASE Subscribe(t)
  <2> DEFINE new == [task[t] EXCEPT !.state = "listening"]
  <2>1. task' = [task EXCEPT ![t] = new] /\ UNCHANGED <<cache, owed>> /\ ~FreshTask(t)
    BY <1>1, <1>3 DEF Subscribe, SetTask, FreshTask, Subscribed, ATask
  <2> HIDE DEF new
  <2> QED BY <1>2, <2>1, HeardByTasks
<1>4. CASE Hear(t)
  <2> DEFINE new == [task[t] EXCEPT !.state = "fetching", !.signals = @ - 1]
  <2>1. /\ task' = [task EXCEPT ![t] = new] /\ UNCHANGED <<cache, owed>>
        /\ new.path = task[t].path /\ new.state = "fetching"
    BY <1>1, <1>4 DEF Hear, ATask
  <2> HIDE DEF new
  <2>2. FreshTask(t) => FreshTask(t)'
    BY <1>1, <1>2, <2>1 DEF FreshTask
  <2> QED BY <1>2, <2>1, <2>2, HeardByTasks
<1>5. CASE TaskFetch(t)
  <2> DEFINE new == [task[t] EXCEPT !.state = "fetched", !.tree = Menu(task[t].path)]
  <2>1. /\ task' = [task EXCEPT ![t] = new] /\ UNCHANGED <<cache, owed>>
        /\ new.path = task[t].path /\ new.state = "fetched" /\ new.tree = Menu(task[t].path)
    BY <1>1, <1>5 DEF TaskFetch, ATask
  <2> HIDE DEF new
  <2>2. FreshTask(t) => FreshTask(t)'
    BY <1>1, <1>2, <2>1 DEF FreshTask
  <2> QED BY <1>2, <2>1, <2>2, HeardByTasks
<1>6. CASE TaskStore(t)
  <2> DEFINE new == [task[t] EXCEPT !.state = "listening", !.tree = NoMenu]
  <2>1. /\ task[t].state = "fetched" /\ task' = [task EXCEPT ![t] = new]
        /\ cache' = task[t].tree
        /\ owed' = IF cache = task[t].tree THEN owed ELSE owed + 1
        /\ new.path = task[t].path /\ new.state = "listening" /\ new.signals = task[t].signals
    BY <1>1, <1>6 DEF TaskStore, UpdateMenu, ATask
  <2> HIDE DEF new
  <2>2. CASE cache # task[t].tree
    <3>1. owed' > 0
      BY <2>1, <2>2 DEF MenuTypeOK, TrafficOK
    <3> QED BY <1>2, <3>1, AskedIsHeard DEF Asked
  <2>3. CASE cache = task[t].tree
    <3>1. UNCHANGED <<cache, owed>>
      BY <2>1, <2>3
    <3>2. CASE FreshTask(t) => FreshTask(t)'
      BY <1>2, <2>1, <3>1, <3>2, HeardByTasks
    <3>3. CASE FreshTask(t) /\ ~FreshTask(t)'
      <4>1. cache = Menu(path)
        BY <1>1, <1>2, <2>1, <2>3, <3>3 DEF FreshTask
      <4>2. \A c \in Calls : (FreshCall(c)' <=> FreshCall(c)) /\ (Stored(c)' <=> Stored(c))
        BY <1>2 DEF FreshCall, Stored
      <4>3. (Asked' <=> Asked) /\ (LastIsCurrent' <=> LastIsCurrent)
        BY <1>2, <3>1, <4>2 DEF Asked, LastIsCurrent
      <4>4. Asked \/ LastIsCurrent \/ \E c \in Calls : Stored(c)
        BY <4>1 DEF Heard, CurrentIsDelivered
      <4>5. CASE Asked
        BY <1>2, <4>3, <4>5, AskedIsHeard
      <4>6. CASE LastIsCurrent \/ \E c \in Calls : Stored(c)
        <5>1. LastIsCurrent' \/ \E c \in Calls : Stored(c)'
          BY <4>2, <4>3, <4>6
        <5>2. cache' = Menu(path)' /\ storePath' = path'
          BY <1>2, <3>1, <4>1 DEF Heard
        <5> QED BY <5>1, <5>2 DEF Heard, CurrentIsDelivered, Settled
      <4> QED BY <4>4, <4>5, <4>6
    <3> QED BY <3>2, <3>3
  <2> QED BY <2>2, <2>3
<1> QED BY <1>3, <1>4, <1>5, <1>6 DEF Work

(* A GetMenu call: what differs from the cached menu is announced, and     *)
(* what does not is its answer.                                            *)
LEMMA CallsAreHeard ==
  ASSUME MenuTypeOK, Heard, NEW c \in Calls, Ask(c) \/ Serve(c)
  PROVE  Heard'
<1>1. call \in [Calls -> ACall] /\ owed \in Nat /\ path \in Paths
  BY DEF MenuTypeOK, CallsOK, TrafficOK, PathsOK
<1>2. UNCHANGED <<path, version, storePath, task, shown>> /\ Menu(path)' = Menu(path)
  BY DEF Ask, Serve, CallFetch, CallStore, Reply, panelVars, itemVars, Menu
<1>3. \A t \in Tasks : FreshTask(t)' <=> FreshTask(t)
  BY <1>2 DEF FreshTask
<1>4. ASSUME NEW new, call' = [call EXCEPT ![c] = new], NEW d \in Calls, d # c
      PROVE  call'[d] = call[d] /\ (FreshCall(d)' <=> FreshCall(d)) /\ (Stored(d)' <=> Stored(d))
  <2>1. call'[d] = call[d]
    BY <1>1, <1>4
  <2> QED BY <1>2, <2>1 DEF FreshCall, Stored
<1>5. CASE Ask(c)
  <2>1. call'[c].state = "asking" /\ call'[c].path = path'
    BY <1>1, <1>2, <1>5 DEF Ask, Heard
  <2> QED BY <1>2, <2>1, AskedIsHeard DEF Asked, FreshCall
<1>6. CASE CallFetch(c)
  <2> DEFINE new == [call[c] EXCEPT !.state = "fetched", !.tree = Menu(call[c].path)]
  <2>1. /\ call[c].state = "asking" /\ call' = [call EXCEPT ![c] = new]
        /\ UNCHANGED <<cache, owed, answers>>
        /\ new.state = "fetched" /\ new.tree = Menu(call[c].path)
    BY <1>1, <1>6 DEF CallFetch, ACall, panelVars
  <2> HIDE DEF new
  <2>2. (FreshCall(c) => FreshCall(c)') /\ (Stored(c)' <=> Stored(c))
    BY <1>1, <1>2, <2>1 DEF FreshCall, Stored
  <2>3. \A d \in Calls : (FreshCall(d) => FreshCall(d)') /\ (Stored(d)' <=> Stored(d))
    BY <1>4, <2>1, <2>2
  <2> QED BY <1>2, <1>3, <2>1, <2>3, HeardStays
<1>7. CASE CallStore(c)
  <2> DEFINE new == [call[c] EXCEPT !.state = "stored"]
  <2>1. /\ call[c].state = "fetched" /\ call' = [call EXCEPT ![c] = new]
        /\ cache' = call[c].tree /\ UNCHANGED answers
        /\ owed' = IF cache = call[c].tree THEN owed ELSE owed + 1
        /\ new.state = "stored"
    BY <1>1, <1>7 DEF CallStore, SetCall, UpdateMenu, ACall, panelVars
  <2> HIDE DEF new
  <2>2. CASE cache # call[c].tree
    <3>1. owed' > 0
      BY <1>1, <2>1, <2>2
    <3> QED BY <1>2, <3>1, AskedIsHeard DEF Asked
  <2>3. CASE cache = call[c].tree
    <3>1. UNCHANGED <<cache, owed>>
      BY <2>1, <2>3
    <3>2. Stored(c)'
      BY <1>1, <2>1 DEF Stored
    <3>3. CurrentIsDelivered' /\ storePath' = path'
      BY <1>2, <3>2 DEF CurrentIsDelivered, Heard
    <3>4. CASE FreshCall(c)
      <4>1. cache' = Menu(path)'
        BY <1>2, <2>1, <2>3, <3>4 DEF FreshCall
      <4> QED BY <3>2, <3>3, <4>1 DEF Heard, Settled
    <3>5. CASE ~FreshCall(c)
      <4>1. \A d \in Calls : FreshCall(d) => FreshCall(d)'
        BY <1>4, <2>1, <3>5
      <4>2. Pending => Pending'
        BY <1>3, <3>1, <4>1 DEF Pending, Asked
      <4>3. ~Settled
        <5>1. cache # NoMenu
          BY <2>1, <2>3 DEF MenuTypeOK, CallsOK, PastMenu, NoMenu
        <5>2. cache # Menu(path)
          BY <2>1, <2>3, <3>5 DEF FreshCall
        <5> QED BY <5>1, <5>2 DEF Settled
      <4> QED BY <3>3, <4>2, <4>3 DEF Heard
    <3> QED BY <3>4, <3>5
  <2> QED BY <2>2, <2>3
<1>8. CASE Reply(c)
  <2>1. /\ call[c].state = "stored" /\ call' = [call EXCEPT ![c] = Idle]
        /\ answers' = Append(answers, cache) /\ UNCHANGED <<cache, owed>>
    BY <1>8 DEF Reply
  <2>2. cache = Menu(path) => LastIsCurrent'
    BY <1>2, <2>1, CurrentIsLast
  <2>3. CurrentIsDelivered' /\ storePath' = path'
    BY <1>2, <2>1, <2>2 DEF CurrentIsDelivered, Heard
  <2>4. ~FreshCall(c) /\ Stored(c) /\ ~Stored(c)'
    BY <1>1, <2>1 DEF FreshCall, Stored, Idle
  <2>5. \A d \in Calls : (FreshCall(d) => FreshCall(d)') /\ (Stored(d)' => Stored(d))
    BY <1>4, <2>1, <2>4
  <2>6. Pending => Pending'
    BY <1>3, <2>1, <2>5 DEF Pending, Asked
  <2>7. Settled => Settled'
    BY <1>2, <2>1, <2>2, <2>4, <2>5 DEF Settled
  <2> QED BY <2>3, <2>6, <2>7 DEF Heard
<1> QED BY <1>5, <1>6, <1>7, <1>8 DEF Serve

LEMMA DeliveriesAreHeard ==
  ASSUME MenuTypeOK, Heard, ~Overtaking, Deliver
  PROVE  Heard'
<1>1. UNCHANGED <<path, version, storePath, cache, task, call, owed>> /\ Menu(path)' = Menu(path)
  BY DEF Deliver, itemVars, Menu
<1>2. LastIsCurrent => LastIsCurrent'
  BY InOrder
<1>3. /\ \A t \in Tasks : FreshTask(t)' <=> FreshTask(t)
      /\ \A c \in Calls : (FreshCall(c)' <=> FreshCall(c)) /\ (Stored(c)' <=> Stored(c))
  BY <1>1 DEF FreshTask, FreshCall, Stored
<1>4. (Asked' <=> Asked) /\ (Pending' <=> Pending)
  BY <1>1, <1>3 DEF Asked, Pending
<1>5. CurrentIsDelivered'
  BY <1>1, <1>2, <1>3, <1>4 DEF Heard, CurrentIsDelivered
<1>6. Settled => Settled'
  BY <1>1, <1>2, <1>3 DEF Settled
<1> QED BY <1>1, <1>4, <1>5, <1>6 DEF Heard

-----------------------------------------------------------------------------
LEMMA MenuInvAtStart ==
  ASSUME FirstsExist, Init
  PROVE  MenuInv
<1>1. PathsOK /\ CacheOK /\ TrafficOK
  <2>1. PathsOK
    BY DEF FirstsExist, Init, PathsOK
  <2>2. CacheOK
    BY DEF Init, CacheOK
  <2>3. <<>> \in Seq(Trees)
    OBVIOUS
  <2>4. TrafficOK
    BY <2>3 DEF Init, TrafficOK
  <2> QED BY <2>1, <2>2, <2>4
<1>2. task \in [Tasks -> ATask] /\ task[FirstTask].path = FirstPath
        /\ \A t \in Tasks : task[t].state # "fetched" /\ task[t].signals = 0
  BY DEF FirstsExist, Init, NewTask, NoTask, ATask, Trees
<1>3. call \in [Calls -> ACall] /\ \A c \in Calls : call[c].state = "idle"
  BY DEF FirstsExist, Init, Idle, ACall, Trees
<1>4. MenuTypeOK
  BY <1>1, <1>2, <1>3 DEF MenuTypeOK, TasksOK, CallsOK
<1>5. TaskFollows
  BY <1>2 DEF Init, TaskFollows
<1>6. Heard
  BY DEF Init, Heard, CurrentIsDelivered, Pending, Asked
<1> QED BY <1>4, <1>5, <1>6 DEF MenuInv

LEMMA MenuInvKept ==
  ASSUME FirstsExist, MenuInv, [Next]_vars
  PROVE  MenuInv'
<1>1. MenuTypeOK' /\ TaskFollows'
  BY TypesKept, FollowingKept DEF MenuInv
<1>2. ASSUME ~missed', ~Overtaking PROVE Heard'
  <2> USE <1>2 DEF MenuInv
  <2>1. ASSUME NEW p \in Paths, ChangeMenu(p) \/ SwapMenu(p) PROVE Heard'
    BY <2>1, ChangesAreHeard DEF SwapMenu
  <2>2. CASE RefreshProps
    BY <2>2, RefreshIsHeard
  <2>3. CASE Probe
    BY <2>3 DEF Probe, Heard
  <2>4. CASE Reregister
    BY <2>4, ReregisterIsHeard
  <2>5. CASE Deliver
    BY <2>5, DeliveriesAreHeard DEF Deliver
  <2>6. ASSUME NEW t \in Tasks, Work(t) \/ TaskFetchFails(t) PROVE Heard'
    BY <2>6, TasksAreHeard DEF TaskFetchFails, Work, Subscribe, Hear, TaskFetch, TaskStore
  <2>7. ASSUME NEW c \in Calls, Ask(c) \/ Serve(c) \/ CallFetchFails(c) PROVE Heard'
    BY <2>7, CallsAreHeard DEF CallFetchFails, Ask, Serve, CallFetch, CallStore, Reply
  <2>8. CASE UNCHANGED vars
    <3>1. UNCHANGED <<path, version, storePath, cache, task, call, owed, answers, shown, missed>>
      BY <2>8 DEF vars, panelVars, itemVars
    <3>2. Menu(path)' = Menu(path)
      BY <3>1 DEF Menu
    <3>3. \A t \in Tasks : FreshTask(t)' <=> FreshTask(t)
      BY <3>1, <3>2 DEF FreshTask
    <3>4. \A c \in Calls : (FreshCall(c)' <=> FreshCall(c)) /\ (Stored(c)' <=> Stored(c))
      BY <3>1, <3>2 DEF FreshCall, Stored
    <3> QED BY <3>1, <3>2, <3>3, <3>4, HeardStays
  <2> QED BY <2>1, <2>2, <2>3, <2>4, <2>5, <2>6, <2>7, <2>8 DEF Next
<1> QED BY <1>1, <1>2 DEF MenuInv

(* When nothing is under way any more, the panel shows the menu there is:  *)
(* each store of a menu that differs from the cached one is announced and  *)
(* each announcement makes the panel ask (item.rs spawn_menu_task,         *)
(* service.rs get_menu, model.rs update_menu), whatever the number of menu *)
(* tasks, calls, paths and changes.                                        *)
THEOREM QuietPanelsAreCurrent == Spec => []QuietPanelIsCurrent
<1>1. Init => MenuInv
  BY MenuInvAtStart, FirstsExist
<1>2. MenuInv /\ [Next]_vars => MenuInv'
  BY MenuInvKept, FirstsExist
<1>3. MenuInv => QuietPanelIsCurrent
  <2> SUFFICES ASSUME MenuInv, Quiet, ~Overtaking, ~missed PROVE shown = Menu(path)
    BY DEF QuietPanelIsCurrent, MenuInv, MenuTypeOK, TrafficOK
  <2>1. Heard
    BY DEF MenuInv
  <2>2. ~Asked /\ \A c \in Calls : ~Stored(c)
    BY DEF Quiet, Asked, FreshCall, Stored
  <2>3. \A t \in Tasks : ~FreshTask(t)
    BY DEF Quiet, FreshTask
  <2>4. LastIsCurrent
    BY <2>1, <2>2, <2>3 DEF Heard, Pending, Settled
  <2>5. \A n : ~(n \in DOMAIN answers)
    BY DEF Quiet
  <2> QED BY <2>4, <2>5 DEF LastIsCurrent
<1> QED BY <1>1, <1>2, <1>3, PTL DEF Spec
=============================================================================
