-------------------------- MODULE Startup_proofs --------------------------
(***************************************************************************)
(* For every environment a process can meet and every text: a function the *)
(* server may call is in a library that is open, gr_main gives back what   *)
(* it took, it stops its process only where there is no module or a path   *)
(* does not fit, a configuration it accepts has ports and settings to      *)
(* serve with, and says what its text says.                                *)
(*                                                                         *)
(* The first two are inductive with where in gr_main each block and        *)
(* library can be held at all.  The last two are about what folds over the *)
(* lines of a text, and over the list of addresses, give.  That is shown   *)
(* along the values a fold takes on its way (ParseRun, PassRun), counting  *)
(* up by the least counterexample (Induction).  After k lines the sections *)
(* are the headers and the items among them, in their order: hp and ip     *)
(* give the line each came from (Read), which makes the first of a name or *)
(* of a key here the first one there (FindIsWritten).  A line that marks   *)
(* the text as bad makes it one that is not well formed (ParseStep).  After*)
(* k addresses a pass has added those of its protocol, each behind the     *)
(* ones before it (After).                                                 *)
(***************************************************************************)
EXTENDS Startup, WellFoundedInduction, FiniteSetTheorems, TLAPS

\* The steps at which the life of one is over, or has not begun.
FromModule == {"mLoad", "mVersion", "mDrop", "server", "run", "tServer", "tModule", "crashed"}
FromCore   == FromModule \cup {"iClasses", "iClose", "module", "tClasses", "tClose"}
Reading    == {"cOpen", "cCall", "cRead", "cDrop"}

Types ==
  /\ pc \in Steps
  /\ heap \subseteq Blocks
  /\ dlls \subseteq {"config", "core", "module"}
  /\ classes \subseteq {"server", "core"}
  /\ version \in {"null", "caller", "dll"}

DllsHeld ==
  /\ "config" \in dlls => pc = "cCall"
  /\ "core" \in dlls => pc \in FromCore
  /\ "module" \in dlls => pc \in FromModule /\ "module" \in heap

ClassesHeld ==
  /\ classes # {} => pc \in (FromCore \cup {"core"}) \ {"iClose", "tClose"}
  /\ "classes" \in heap => pc \in (FromCore \cup {"core"}) \ {"iClose", "tClose"}
  /\ "library" \in heap => pc \in FromCore \cup {"core"}

BlocksHeld ==
  /\ "server" \in heap => pc \in {"run", "tServer"}
  /\ "module" \in heap => pc \in FromModule
  /\ pc \in {"mLoad", "mVersion", "mDrop"} => "module" \in heap
  /\ "content" \in heap => pc \in Reading \cup {"crashed"}
  /\ "log" \in heap => pc \notin {"directory", "log", "ended"}

\* The configuration is freed where it could not be used, and by gr_config_term.
IniHeld ==
  /\ "ini" \in heap =>
       pc \in Reading \cup {"cListen", "crashed"} \/ config # <<>> \/ env.fail = "content"
  /\ config # <<>> => pc \notin {"tLog", "ended"}

Held == DllsHeld /\ ClassesHeld /\ BlocksHeld /\ IniHeld

IInv == Types /\ CodeIsLoaded /\ Held

\* Where every step begins and ends.
LEMMA InitHeld == Init => IInv
BY DEF Init, IInv, Types, CodeIsLoaded, Held, DllsHeld, ClassesHeld, BlocksHeld, IniHeld,
       Steps, Blocks

LEMMA StepHeld == IInv /\ [Next]_vars => IInv'
<1> SUFFICES ASSUME IInv, [Next]_vars PROVE IInv'
  OBVIOUS
<1> USE DEF IInv, Types, CodeIsLoaded, Held, DllsHeld, ClassesHeld, BlocksHeld, IniHeld,
            Steps, Blocks, FromModule, FromCore, Reading, Fail, Go
<1>1. CASE SetDirectory
  BY <1>1 DEF SetDirectory
<1>2. CASE OpenLog
  BY <1>2 DEF OpenLog
<1>3. CASE ConfigInit
  BY <1>3 DEF ConfigInit, NoConfig, Allocates
<1>4. CASE OpenConfigDll
  <2>1. /\ pc = "cOpen"
        /\ \/ pc' = "cCall" /\ dlls' = dlls \cup {"config"}
           \/ pc' = "cDrop" /\ dlls' = dlls
        /\ UNCHANGED <<env, heap, config, classes, version>>
    BY <1>4, Zenon DEF OpenConfigDll
  <2>2. QED
    BY <2>1
<1>5. CASE CallConfig
  BY <1>5 DEF CallConfig
<1>6. CASE ReadText
  <2>1. /\ pc = "cRead"
        /\ \/ pc' = "cListen" /\ heap' = (heap \ {"content"}) \cup {"text"}
           \/ pc' = "tServer" /\ heap' = heap \ {"content", "ini"}
        /\ UNCHANGED <<env, dlls, config, classes, version>>
    BY <1>6, Zenon DEF ReadText, NoConfig
  <2>2. QED
    BY <2>1
<1>7. CASE DropContent
  BY <1>7 DEF DropContent, NoConfig
<1>8. CASE Listen
  <2>1. /\ pc = "cListen"
        /\ \/ pc' = "library" /\ config' = <<Parse(env.text)>> /\ heap' = heap
           \/ pc' = "tServer" /\ config' = config /\ heap' = heap \ {"ini"}
        /\ UNCHANGED <<env, dlls, classes, version>>
    BY <1>8, Zenon DEF Listen, NoConfig
  <2>2. <<Parse(env.text)>> # <<>>
    OBVIOUS
  <2>3. QED
    BY <2>1, <2>2
<1>9. CASE Smash
  <2>1. /\ pc \in {"config", "cOpen", "core", "mLoad"} /\ pc' = "crashed"
        /\ UNCHANGED <<env, heap, dlls, config, classes, version>>
    BY <1>9 DEF Smash, ExePathOverflows, NameOverflows
  <2>2. QED
    BY <2>1
<1>10. CASE LibraryInit
  BY <1>10 DEF LibraryInit
<1>11. CASE LoadCore
  BY <1>11 DEF LoadCore
<1>12. CASE LibraryFails
  BY <1>12 DEF LibraryFails, DestroyClasses, CloseCore
<1>13. CASE ModuleInit
  BY <1>13 DEF ModuleInit
<1>14. CASE LoadModule
  <2>1. /\ pc = "mLoad"
        /\ \/ pc' \in {"mVersion", "mDrop"} /\ UNCHANGED <<dlls, version>>
           \/ /\ pc' \in {"mVersion", "mDrop"} /\ dlls' = dlls \cup {"module"}
              /\ version' \in {"dll", "null"}
        /\ UNCHANGED <<env, heap, config, classes>>
    BY <1>14, Zenon DEF LoadModule
  <2>2. QED
    BY <2>1
<1>15. CASE CheckVersion
  BY <1>15 DEF CheckVersion
<1>16. CASE ModuleFails
  BY <1>16 DEF ModuleFails, UnloadModule
<1>17. CASE ServerInit
  BY <1>17 DEF ServerInit, NoConfig
<1>18. CASE Run
  BY <1>18 DEF Run
<1>19. CASE ServerTerm
  BY <1>19 DEF ServerTerm
<1>20. CASE ModuleTerm
  <2>1. pc = "tModule" /\ pc' = "tClasses" /\ UNCHANGED <<env, config, classes>>
    BY <1>20 DEF ModuleTerm
  <2>2. CASE "module" \in heap
    <3>1. version' = "null" /\ dlls' = dlls \ {"module"} /\ heap' = heap \ {"module"}
      BY <1>20, <2>2, Zenon DEF ModuleTerm, UnloadModule
    <3>2. IniHeld' /\ Types' /\ CodeIsLoaded'
      BY <2>1, <3>1
    <3>3. DllsHeld' /\ ClassesHeld' /\ BlocksHeld'
      BY <2>1, <3>1
    <3>4. QED
      BY <3>2, <3>3
  <2>3. CASE "module" \notin heap
    BY <1>20, <2>1, <2>3 DEF ModuleTerm
  <2>4. QED
    BY <2>2, <2>3
<1>21. CASE LibraryTerm
  BY <1>21 DEF LibraryTerm, DestroyClasses, CloseCore
<1>22. CASE ConfigTerm
  BY <1>22 DEF ConfigTerm
<1>23. CASE CloseLog
  BY <1>23 DEF CloseLog
<1>24. CASE UNCHANGED vars
  BY <1>24 DEF vars
<1>25. QED
  BY <1>1, <1>2, <1>3, <1>4, <1>5, <1>6, <1>7, <1>8, <1>9, <1>10, <1>11, <1>12, <1>13, <1>14,
     <1>15, <1>16, <1>17, <1>18, <1>19, <1>20, <1>21, <1>22, <1>23, <1>24 DEF Next

\* Every function the server may call is in a library that is still open (gr_library_impl.c,
\* gr_module.c).
THEOREM CodeIsAlwaysLoaded == Spec => []CodeIsLoaded
<1>1. IInv => CodeIsLoaded
  BY DEF IInv
<1>2. QED
  BY InitHeld, StepHeld, <1>1, PTL DEF Spec

\* At the end of gr_main nothing but the text of a configuration, or the object whose text there
\* was no memory for, is left (libgrocket.c:303-318).
THEOREM NothingIsLeft == Spec => []NothingLeft
<1>1. IInv => NothingLeft
  BY DEF IInv, Types, Held, DllsHeld, ClassesHeld, BlocksHeld, IniHeld, NothingLeft,
         Blocks, FromModule, FromCore, Reading
<1>2. QED
  BY InitHeld, StepHeld, <1>1, PTL DEF Spec

-----------------------------------------------------------------------------
(* Natural numbers and folds.                                             *)

Below == OpToRel(<, Nat)

LEMMA Smallest ==
  ASSUME NEW T, T \subseteq Nat, T # {}
  PROVE  \E x \in T : \A y \in T : x <= y
<1>1. IsWellFoundedOn(Below, Nat)
  BY NatLessThanWellFounded DEF Below
<1>2. \A x, y \in Nat : x < y => <<x, y>> \in Below
  BY DEF OpToRel, Below
<1>3. PICK x \in T : \A y \in T : ~ (<<y, x>> \in Below)
  BY <1>1, WFMin
<1>4. ASSUME NEW y \in T PROVE x <= y
  <2>1. ~ (y < x)
    BY <1>2, <1>3
  <2> QED
    BY <2>1
<1> QED
  BY <1>4

LEMMA MinIn ==
  ASSUME NEW T, T \subseteq Nat, T # {}
  PROVE  Min(T) \in T
BY Smallest DEF Min

LEMMA MinLeast ==
  ASSUME NEW T, T \subseteq Nat, T # {}
  PROVE  Min(T) \in T /\ \A x \in T : Min(T) <= x
BY Smallest DEF Min

LEMMA MinIs ==
  ASSUME NEW S, S \subseteq Nat, NEW m \in S, \A x \in S : m <= x
  PROVE  Min(S) = m
<1>1. ASSUME NEW x \in S, \A y \in S : x <= y PROVE x = m
  BY <1>1
<1> QED
  BY <1>1 DEF Min

\* Induction, for a set that counting from 0 to n does not leave.
LEMMA Induction ==
  ASSUME NEW n \in Nat, NEW T, 0 \in T, \A k \in 1 .. n : k - 1 \in T => k \in T
  PROVE  n \in T
<1> SUFFICES ASSUME n \notin T PROVE FALSE
  OBVIOUS
<1> DEFINE U == (0 .. n) \ T
<1>1. U \subseteq Nat /\ U # {}
  OBVIOUS
<1>2. PICK x \in U : \A y \in U : x <= y
  <2> HIDE DEF U
  <2> QED
    BY <1>1, Smallest
<1>3. x \in 1 .. n /\ x - 1 \in 0 .. n /\ ~(x <= x - 1)
  OBVIOUS
<1>4. x - 1 \in T
  BY <1>2, <1>3
<1> QED
  BY <1>3, <1>4

LEMMA MaxIs ==
  ASSUME NEW S, S \subseteq Nat, NEW m \in S, \A x \in S : x <= m
  PROVE  Max(S) = m
<1>1. \A x \in S : m >= x
  OBVIOUS
<1>2. ASSUME NEW x \in S, \A y \in S : x >= y PROVE x = m
  BY <1>2
<1> QED
  BY <1>1, <1>2 DEF Max

\* Parse goes over a text from its first line to its last.
LEMMA ParseRun ==
  ASSUME NEW lines, NEW n \in Nat, DOMAIN lines = 1 .. n
  PROVE  \E p : /\ Parse(lines) = p[n] /\ p[0] = NoText
                /\ \A k \in 1 .. n : p[k] = ParseLine(p[k - 1], lines[k])
<1> DEFINE F(g, k) == [s \in SUBSET (1 .. k) |->
                         IF s = {} THEN NoText
                         ELSE ParseLine(g[s \ {Max(s)}], lines[Max(s)])]
           T == {k \in Nat : \E g : g = F(g, k)}
<1>1. Parse(lines) = (CHOOSE g : g = F(g, n))[1 .. n]
  BY DEF Parse, FoldLeft, MapThenFoldSet
<1>2. 0 \in T
  <2>1. SUBSET (1 .. 0) = {{}}
    OBVIOUS
  <2>2. [s \in SUBSET (1 .. 0) |-> NoText] = F([s \in SUBSET (1 .. 0) |-> NoText], 0)
    BY <2>1
  <2> QED
    BY <2>2
<1>3. ASSUME NEW k \in 1 .. n, k - 1 \in T PROVE k \in T
  <2>1. PICK g : g = F(g, k - 1)
    BY <1>3
  <2>2. PICK h : h = [s \in SUBSET (1 .. k) |->
                        IF k \in s THEN ParseLine(g[s \ {k}], lines[k]) ELSE g[s]]
    OBVIOUS
  <2>3. ASSUME NEW s \in SUBSET (1 .. k) PROVE h[s] = F(h, k)[s]
    <3>1. CASE k \in s
      <4>1. Max(s) = k
        <5>1. s \subseteq Nat /\ \A x \in s : x <= k
          OBVIOUS
        <5> QED
          BY <3>1, <5>1, MaxIs
      <4>2. s \ {k} \in SUBSET (1 .. k) /\ k \notin s \ {k}
        OBVIOUS
      <4>3. h[s \ {k}] = g[s \ {k}]
        BY <2>2, <4>2
      <4>4. h[s] = ParseLine(g[s \ {k}], lines[k])
        BY <2>2, <3>1
      <4> QED
        BY <3>1, <4>1, <4>3, <4>4
    <3>2. CASE k \notin s
      <4>1. s \in SUBSET (1 .. (k - 1))
        BY <3>2
      <4>2. h[s] = g[s] /\ h[s \ {Max(s)}] = g[s \ {Max(s)}]
        BY <2>2, <3>2
      <4>3. g[s] = IF s = {} THEN NoText ELSE ParseLine(g[s \ {Max(s)}], lines[Max(s)])
        BY <2>1, <4>1
      <4> QED
        BY <4>2, <4>3
    <3> QED
      BY <3>1, <3>2
  <2>4. h = F(h, k)
    BY <2>2, <2>3
  <2>5. k \in Nat
    OBVIOUS
  <2> HIDE DEF F
  <2> QED
    BY <2>4, <2>5
<1> HIDE DEF T
<1>4. n \in T
  BY <1>2, <1>3, Induction
<1>5. PICK g : g = F(g, n) /\ Parse(lines) = g[1 .. n]
  <2>1. \E g : g = F(g, n)
    BY <1>4 DEF T
  <2> HIDE DEF F
  <2> QED
    BY <1>1, <2>1
<1> DEFINE p == [k \in 0 .. n |-> g[1 .. k]]
<1>6. p[0] = NoText
  <2>1. 1 .. 0 = {} /\ {} \in SUBSET (1 .. n)
    OBVIOUS
  <2> QED
    BY <1>5, <2>1
<1>7. ASSUME NEW k \in 1 .. n PROVE p[k] = ParseLine(p[k - 1], lines[k])
  <2>1. k \in 1 .. k /\ 1 .. k \subseteq Nat /\ \A x \in 1 .. k : x <= k /\ x \in 1 .. n
    OBVIOUS
  <2>2. Max(1 .. k) = k
    BY <2>1, MaxIs
  <2>3. (1 .. k) \ {k} = 1 .. (k - 1)
    OBVIOUS
  <2>4. g[1 .. k] = ParseLine(g[1 .. (k - 1)], lines[k])
    <3>1. 1 .. k \in SUBSET (1 .. n) /\ 1 .. k # {}
      BY <2>1
    <3> QED
      BY <1>5, <2>2, <2>3, <3>1
  <2> QED
    BY <2>4
<1>8. Parse(lines) = p[n]
  <2>1. n \in 0 .. n
    OBVIOUS
  <2> HIDE DEF F
  <2> QED
    BY <1>5, <2>1
<1> HIDE DEF p
<1> QED
  BY <1>6, <1>7, <1>8

\* So does each pass over the entries of the list of ports.
LEMMA PassRun ==
  ASSUME NEW l, NEW p, NEW list, NEW n \in Nat, DOMAIN list = 1 .. n
  PROVE  \E q : /\ ListenPass(l, p, list) = q[n] /\ q[0] = l
                /\ \A k \in 1 .. n : q[k] = ListenEntry(q[k - 1], p, list[k])
<1> DEFINE F(g, k) == [s \in SUBSET (1 .. k) |->
                         IF s = {} THEN l
                         ELSE ListenEntry(g[s \ {Max(s)}], p, list[Max(s)])]
           T == {k \in Nat : \E g : g = F(g, k)}
<1>1. ListenPass(l, p, list) = (CHOOSE g : g = F(g, n))[1 .. n]
  BY DEF ListenPass, FoldLeft, MapThenFoldSet
<1>2. 0 \in T
  <2>1. SUBSET (1 .. 0) = {{}}
    OBVIOUS
  <2>2. [s \in SUBSET (1 .. 0) |-> l] = F([s \in SUBSET (1 .. 0) |-> l], 0)
    BY <2>1
  <2> QED
    BY <2>2
<1>3. ASSUME NEW k \in 1 .. n, k - 1 \in T PROVE k \in T
  <2>1. PICK g : g = F(g, k - 1)
    BY <1>3
  <2>2. PICK h : h = [s \in SUBSET (1 .. k) |->
                        IF k \in s THEN ListenEntry(g[s \ {k}], p, list[k]) ELSE g[s]]
    OBVIOUS
  <2>3. ASSUME NEW s \in SUBSET (1 .. k) PROVE h[s] = F(h, k)[s]
    <3>1. CASE k \in s
      <4>1. Max(s) = k
        <5>1. s \subseteq Nat /\ \A x \in s : x <= k
          OBVIOUS
        <5> QED
          BY <3>1, <5>1, MaxIs
      <4>2. s \ {k} \in SUBSET (1 .. k) /\ k \notin s \ {k}
        OBVIOUS
      <4>3. h[s \ {k}] = g[s \ {k}]
        BY <2>2, <4>2
      <4>4. h[s] = ListenEntry(g[s \ {k}], p, list[k])
        BY <2>2, <3>1
      <4> QED
        BY <3>1, <4>1, <4>3, <4>4
    <3>2. CASE k \notin s
      <4>1. s \in SUBSET (1 .. (k - 1))
        BY <3>2
      <4>2. h[s] = g[s] /\ h[s \ {Max(s)}] = g[s \ {Max(s)}]
        BY <2>2, <3>2
      <4>3. g[s] = IF s = {} THEN l ELSE ListenEntry(g[s \ {Max(s)}], p, list[Max(s)])
        BY <2>1, <4>1
      <4> QED
        BY <4>2, <4>3
    <3> QED
      BY <3>1, <3>2
  <2>4. h = F(h, k)
    BY <2>2, <2>3
  <2>5. k \in Nat
    OBVIOUS
  <2> HIDE DEF F
  <2> QED
    BY <2>4, <2>5
<1> HIDE DEF T
<1>4. n \in T
  BY <1>2, <1>3, Induction
<1>5. PICK g : g = F(g, n) /\ ListenPass(l, p, list) = g[1 .. n]
  <2>1. \E g : g = F(g, n)
    BY <1>4 DEF T
  <2> HIDE DEF F
  <2> QED
    BY <1>1, <2>1
<1> DEFINE q == [k \in 0 .. n |-> g[1 .. k]]
<1>6. q[0] = l
  <2>1. 1 .. 0 = {} /\ {} \in SUBSET (1 .. n)
    OBVIOUS
  <2> QED
    BY <1>5, <2>1
<1>7. ASSUME NEW k \in 1 .. n PROVE q[k] = ListenEntry(q[k - 1], p, list[k])
  <2>1. k \in 1 .. k /\ 1 .. k \subseteq Nat /\ \A x \in 1 .. k : x <= k /\ x \in 1 .. n
    OBVIOUS
  <2>2. Max(1 .. k) = k
    BY <2>1, MaxIs
  <2>3. (1 .. k) \ {k} = 1 .. (k - 1)
    OBVIOUS
  <2>4. g[1 .. k] = ListenEntry(g[1 .. (k - 1)], p, list[k])
    <3>1. 1 .. k \in SUBSET (1 .. n) /\ 1 .. k # {}
      BY <2>1
    <3> QED
      BY <1>5, <2>2, <2>3, <3>1
  <2> QED
    BY <2>4
<1>8. ListenPass(l, p, list) = q[n]
  <2>1. n \in 0 .. n
    OBVIOUS
  <2> HIDE DEF F
  <2> QED
    BY <1>5, <2>1
<1> HIDE DEF q
<1> QED
  BY <1>6, <1>7, <1>8

-----------------------------------------------------------------------------
(* What a text becomes.                                                    *)

ItemLines(lines) == {i \in DOMAIN lines : lines[i].kind = "item"}

ItemsOf(lines) ==
  [key : {lines[i].key : i \in ItemLines(lines)}, val : {lines[i].val : i \in ItemLines(lines)}]

SectionsOf(lines) ==
  [name : {SectionName(lines[i]) : i \in DOMAIN lines}, items : Seq(ItemsOf(lines))]

\* The texts that are read from some of the lines.
InisOf(lines) == [sections : Seq(SectionsOf(lines)), bad : BOOLEAN]

LEMMA ParseLineIn ==
  ASSUME NEW lines, IsText(lines), NEW i \in DOMAIN lines, NEW ini \in InisOf(lines)
  PROVE  ParseLine(ini, lines[i]) \in InisOf(lines)
<1> DEFINE line == lines[i]
           Sections == SectionsOf(lines)
           Items == ItemsOf(lines)
<1>1. ini.sections \in Seq(Sections) /\ ini.bad \in BOOLEAN
  BY DEF InisOf
<1>2. [ini EXCEPT !.bad = TRUE] \in InisOf(lines)
  BY DEF InisOf
<1>3. ParseHead(ini, line) \in InisOf(lines)
  <2> DEFINE s == [name |-> SectionName(line), items |-> <<>>]
  <2>1. s \in Sections
    BY DEF SectionsOf
  <2>2. Append(ini.sections, s) \in Seq(Sections)
    BY <1>1, <2>1
  <2>3. [ini EXCEPT !.sections = Append(@, s)] \in InisOf(lines)
    <3> HIDE DEF s
    <3> QED
      BY <2>2 DEF InisOf
  <2> QED
    BY <1>2, <2>3 DEF ParseHead
<1>4. ASSUME line.kind = "item" PROVE ParseItem(ini, line) \in InisOf(lines)
  <2> DEFINE last == Len(ini.sections)
             e == [key |-> line.key, val |-> line.val]
  <2>1. e \in Items
    BY <1>4 DEF ItemsOf, ItemLines
  <2>2. ASSUME last # 0 PROVE [ini EXCEPT !.sections[last].items = Append(@, e)] \in InisOf(lines)
    <3>1. last \in 1 .. Len(ini.sections) /\ ini.sections[last] \in Sections
      BY <1>1, <2>2
    <3>2. ini.sections[last].items \in Seq(Items)
      BY <3>1 DEF SectionsOf
    <3>3. Append(ini.sections[last].items, e) \in Seq(Items)
      BY <2>1, <3>2
    <3> HIDE DEF e
    <3> DEFINE q == [ini.sections[last] EXCEPT !.items = Append(@, e)]
               z == [ini.sections EXCEPT ![last] = q]
    <3>4. q \in Sections
      BY <3>1, <3>3 DEF SectionsOf
    <3>5. z \in Seq(Sections)
      <4> HIDE DEF q, Sections, last
      <4> QED
        BY <1>1, <3>1, <3>4
    <3>6. [ini EXCEPT !.sections[last].items = Append(@, e)] = [ini EXCEPT !.sections = z]
      OBVIOUS
    <3>7. [ini EXCEPT !.sections = z] \in InisOf(lines)
      <4> HIDE DEF z
      <4> QED
        BY <3>5 DEF InisOf
    <3> QED
      BY <3>6, <3>7
  <2> QED
    BY <1>2, <2>2 DEF ParseItem
<1>5. IsLine(line)
  BY DEF IsText
<1> HIDE DEF line
<1>6. ParseLine(ini, line) \in InisOf(lines)
  BY <1>3, <1>4, <1>5 DEF ParseLine, IsLine, InisOf
<1> QED
  BY <1>6 DEF line

LEMMA ParseIn ==
  ASSUME NEW lines, IsText(lines)
  PROVE  Parse(lines) \in InisOf(lines)
<1>1. Len(lines) \in Nat /\ DOMAIN lines = 1 .. Len(lines)
  BY DEF IsText
<1>2. PICK p : /\ Parse(lines) = p[Len(lines)] /\ p[0] = NoText
               /\ \A k \in 1 .. Len(lines) : p[k] = ParseLine(p[k - 1], lines[k])
  BY <1>1, ParseRun
<1> DEFINE T == {k \in 0 .. Len(lines) : p[k] \in InisOf(lines)}
<1>3. 0 \in T
  <2>1. NoText \in InisOf(lines)
    <3>1. <<>> \in Seq(SectionsOf(lines))
      OBVIOUS
    <3> QED
      BY <3>1 DEF NoText, InisOf
  <2> QED
    BY <1>1, <1>2, <2>1
<1>4. ASSUME NEW k \in 1 .. Len(lines), k - 1 \in T PROVE k \in T
  <2>1. p[k - 1] \in InisOf(lines)
    BY <1>4
  <2>2. p[k] \in InisOf(lines)
    BY <1>1, <1>2, <2>1, ParseLineIn
  <2> QED
    BY <1>1, <2>2
<1>5. Len(lines) \in T
  <2> HIDE DEF T
  <2> QED
    BY <1>1, <1>3, <1>4, Induction
<1> QED
  BY <1>2, <1>5

\* What a lookup finds is a value of the text.
LEMMA FindIn ==
  ASSUME NEW lines, IsText(lines), NEW ini \in InisOf(lines), NEW name, NEW key
  PROVE  Find(ini, name, key) = Absent \/ IsValue(Find(ini, name, key))
<1> SUFFICES ASSUME Find(ini, name, key) # Absent PROVE IsValue(Find(ini, name, key))
  OBVIOUS
<1> DEFINE s == FindSection(ini, name)
           I == {i \in 1 .. Len(ini.sections) : ini.sections[i].name = name}
           J == {i \in 1 .. Len(ini.sections[s].items) : ini.sections[s].items[i].key = key}
<1>1. ini.sections \in Seq(SectionsOf(lines))
  BY DEF InisOf
<1>2. s = IF I # {} THEN Min(I) ELSE 0
  BY DEF FindSection, SelectInSeq
<1>3. Find(ini, name, key) = LET i == IF s = 0 THEN 0 ELSE IF J # {} THEN Min(J) ELSE 0
                             IN  IF i = 0 THEN Absent ELSE ini.sections[s].items[i].val
  BY DEF Find, SelectInSeq
<1> HIDE DEF s
<1>4. s # 0 /\ J # {} /\ Find(ini, name, key) = ini.sections[s].items[Min(J)].val
  BY <1>3
<1>5. I \subseteq Nat
  OBVIOUS
<1>6. s \in 1 .. Len(ini.sections)
  <2>1. I # {} /\ s = Min(I)
    <3> HIDE DEF I
    <3> QED
      BY <1>2, <1>4
  <2>2. s \in I
    <3> HIDE DEF I
    <3> QED
      BY <1>5, <2>1, MinIn
  <2> QED
    BY <2>2
<1>7. ini.sections[s].items \in Seq(ItemsOf(lines))
  <2>1. ini.sections[s] \in SectionsOf(lines)
    <3> HIDE DEF I, J
    <3> QED
      BY <1>1, <1>6
  <2> QED
    BY <2>1 DEF SectionsOf
<1>8. Min(J) \in 1 .. Len(ini.sections[s].items)
  <2>1. J \subseteq Nat
    OBVIOUS
  <2>2. Min(J) \in J
    <3> HIDE DEF J
    <3> QED
      BY <1>4, <2>1, MinIn
  <2> QED
    BY <2>2
<1> HIDE DEF I, J
<1>9. ini.sections[s].items[Min(J)] \in ItemsOf(lines)
  BY <1>7, <1>8
<1>10. PICK i \in ItemLines(lines) : Find(ini, name, key) = lines[i].val
  BY <1>4, <1>9 DEF ItemsOf
<1> QED
  BY <1>10 DEF IsText, IsLine, ItemLines

-----------------------------------------------------------------------------
(* The ports.                                                              *)

Ports == [tcp : BOOLEAN, port : Port]
Lists == [ports : Seq(Ports), r : Int]

LEMMA PortRange == \A n \in Int : n <= 0 \/ n > LastPort \/ n \in Port
<1>1. LastPort \in Int
  BY SMT DEF LastPort
<1> QED
  BY <1>1, SMT DEF Port

LEMMA AddPortIn ==
  ASSUME NEW l \in Lists, NEW tcp \in BOOLEAN, NEW n \in Port
  PROVE  AddPort(l, tcp, n) \in Lists
<1> DEFINE e == [tcp |-> tcp, port |-> n]
<1>1. e \in Ports
  BY Zenon DEF Ports
<1> HIDE DEF e
<1>2. Append(l.ports, e) \in Seq(Ports)
  BY <1>1 DEF Lists
<1>3. [l EXCEPT !.ports = Append(@, e)] \in Lists
  BY <1>2 DEF Lists
<1>4. [l EXCEPT !.r = -6] \in Lists
  BY DEF Lists
<1> QED
  BY <1>3, <1>4, Zenon DEF AddPort, e

LEMMA ListenEntryIn ==
  ASSUME NEW l \in Lists, NEW p, NEW v, v = Absent \/ IsValue(v)
  PROVE  ListenEntry(l, p, v) \in Lists
<1>1. /\ [l EXCEPT !.r = -1] \in Lists /\ [l EXCEPT !.r = -2] \in Lists
      /\ [l EXCEPT !.r = -3] \in Lists /\ [l EXCEPT !.r = -4] \in Lists
      /\ [l EXCEPT !.r = -5] \in Lists
  BY DEF Lists
<1>2. CASE v.is = "addr"
  <2>1. v.n \in Int /\ v.fault \in {"none", "colon", "ip", "digit"}
    BY <1>2 DEF IsValue, Absent
  <2>2. ~(v.n <= 0 \/ v.n > LastPort) => v.n \in Port
    BY <2>1, PortRange, SMT
  <2>3. v.n \in Port => AddPort(l, p = "tcp", v.n) \in Lists
    <3>1. (p = "tcp") \in BOOLEAN
      OBVIOUS
    <3> QED
      BY <3>1, AddPortIn, Zenon
  <2>4. CASE v.fault = "none"
    <3>1. ListenEntry(l, p, v) \in
            {l, [l EXCEPT !.r = -1], [l EXCEPT !.r = -5]} \cup
              (IF v.n \in Port THEN {AddPort(l, p = "tcp", v.n)} ELSE {})
      BY <2>2, <2>4, SMT DEF ListenEntry
    <3> QED
      BY <1>1, <2>3, <3>1
  <2>5. CASE v.fault # "none"
    BY <1>1, <2>1, <2>5, SMT DEF ListenEntry
  <2> QED
    BY <2>4, <2>5
<1>3. CASE v.is # "addr"
  BY <1>1, <1>3, SMT DEF ListenEntry
<1> QED
  BY <1>2, <1>3

LEMMA PassIn ==
  ASSUME NEW l \in Lists, NEW p, NEW list, NEW n \in Nat, DOMAIN list = 1 .. n,
         \A i \in 1 .. n : list[i] = Absent \/ IsValue(list[i])
  PROVE  ListenPass(l, p, list) \in Lists
<1>1. PICK q : /\ ListenPass(l, p, list) = q[n] /\ q[0] = l
               /\ \A k \in 1 .. n : q[k] = ListenEntry(q[k - 1], p, list[k])
  BY PassRun
<1> DEFINE T == {k \in 0 .. n : q[k] \in Lists}
<1>2. 0 \in T
  BY <1>1
<1>3. ASSUME NEW k \in 1 .. n, k - 1 \in T PROVE k \in T
  <2>1. q[k - 1] \in Lists
    BY <1>3
  <2>2. q[k] \in Lists
    BY <1>1, <2>1, ListenEntryIn
  <2> QED
    BY <2>2
<1>4. n \in T
  <2> HIDE DEF T
  <2> QED
    BY <1>2, <1>3, Induction
<1> QED
  BY <1>1, <1>4

\* The ports are those of valid addresses, and there is one.
LEMMA LoadListenIn ==
  ASSUME NEW lines, IsText(lines), NEW ini \in InisOf(lines)
  PROVE  LoadListen(ini) \in Lists /\ (LoadListen(ini).r = 0 => LoadListen(ini).ports # <<>>)
<1> DEFINE Pass(l, p) == ListenPass(l, p, Listed(ini))
           none == [ports |-> <<>>, r |-> 0]
<1>1. PICK n \in Nat : /\ DOMAIN Listed(ini) = 1 .. n
                       /\ \A i \in 1 .. n : Listed(ini)[i] = Entry(ini, i - 1)
  <2> DEFINE gap == {i \in 0 .. PortMax - 1 : Missing(Entry(ini, i))}
             n == IF gap = {} THEN PortMax ELSE Min(gap)
  <2>1. gap \subseteq Nat
    OBVIOUS
  <2>2. Listed(ini) = [i \in 1 .. n |-> Entry(ini, i - 1)]
    BY DEF Listed
  <2> HIDE DEF gap
  <2>3. n \in Nat
    BY <2>1, MinIn, ConfigAssumption
  <2> HIDE DEF n
  <2> QED
    BY <2>2, <2>3
<1>2. \A i \in 1 .. n : Listed(ini)[i] = Absent \/ IsValue(Listed(ini)[i])
  <2>1. \A i : Entry(ini, i) = Absent \/ IsValue(Entry(ini, i))
    BY FindIn DEF Entry, GetString
  <2> QED
    BY <1>1, <2>1
<1>3. none \in Lists
  <2>1. <<>> \in Seq(Ports)
    OBVIOUS
  <2> QED
    BY <2>1 DEF Lists
<1>4. Pass(none, "tcp") \in Lists
  <2> HIDE DEF none
  <2> QED
    BY <1>1, <1>2, <1>3, PassIn
<1>5. Pass(Pass(none, "tcp"), "udp") \in Lists
  BY <1>1, <1>2, <1>4, PassIn
<1> DEFINE l == Pass(Pass(none, "tcp"), "udp")
<1>6. LoadListen(ini) = IF l.r = 0 /\ l.ports = <<>> THEN [l EXCEPT !.r = -7] ELSE l
  BY DEF LoadListen
<1>7. l \in Lists
  BY <1>5
<1> HIDE DEF l
<1> QED
  BY <1>6, <1>7 DEF Lists

-----------------------------------------------------------------------------
(* The settings.                                                           *)

LEMMA MaxOfTwo ==
  ASSUME NEW a \in Int, NEW b \in Int
  PROVE  Max({a, b}) \in Int /\ Max({a, b}) >= a /\ Max({a, b}) >= b
<1>1. \E x \in {a, b} : \A y \in {a, b} : x >= y
  OBVIOUS
<1>2. Max({a, b}) \in {a, b} /\ \A y \in {a, b} : Max({a, b}) >= y
  BY <1>1 DEF Max
<1> QED
  BY <1>2

LEMMA AtLeastIs ==
  ASSUME NEW lines, IsText(lines), NEW ini \in InisOf(lines),
         NEW key, NEW def \in Int, NEW least \in Int
  PROVE  AtLeast(ini, key, def, least) \in Int /\ AtLeast(ini, key, def, least) >= least
<1>1. GetInt(ini, "server", key, def) \in Int
  BY FindIn DEF GetInt, IsValue, Absent
<1> QED
  BY <1>1, MaxOfTwo DEF AtLeast

LEMMA SettingIs ==
  ASSUME NEW lines, IsText(lines), NEW ini \in InisOf(lines),
         NEW key, NEW least \in Int, \E s \in Settings : s.key = key,
         \A s \in Settings : s.key = key => s.def \in Int /\ s.least = least
  PROVE  Setting(ini, key) \in Int /\ Setting(ini, key) >= least
<1> DEFINE s == CHOOSE s \in Settings : s.key = key
<1>1. s \in Settings /\ s.key = key
  OBVIOUS
<1>2. s.def \in Int /\ s.least = least
  BY <1>1
<1>3. Setting(ini, key) = AtLeast(ini, key, s.def, s.least)
  BY DEF Setting
<1> HIDE DEF s
<1> QED
  BY <1>2, <1>3, AtLeastIs

\* Whatever a text says, a server can be built with the settings made of it.
LEMMA AlwaysServiceable ==
  ASSUME NEW lines, IsText(lines), NEW ini \in InisOf(lines)
  PROVE  Serviceable(ini)
<1> USE DEF Settings, TcpInSettings, IoSettings, Concurrent, ThreadCount, SocketSettings,
            BackendSettings, ClassSettings, AlignSettings
<1>1. ASSUME NEW k \in ThreadCount PROVE Setting(ini, k) >= 1
  <2>1. [key |-> k, def |-> 1, least |-> 1] \in Settings
    OBVIOUS
  <2>2. \A s \in Settings : s.key = k => s.def \in Int /\ s.least = 1
    OBVIOUS
  <2> HIDE DEF Settings
  <2> QED
    BY <2>1, <2>2, SettingIs
<1>2. Setting(ini, "library.class_max") >= 10
  <2>1. [key |-> "library.class_max", def |-> 100, least |-> 10] \in Settings
    OBVIOUS
  <2>2. \A s \in Settings : s.key = "library.class_max" => s.def \in Int /\ s.least = 10
    OBVIOUS
  <2> HIDE DEF Settings
  <2> QED
    BY <2>1, <2>2, SettingIs
<1>3. Setting(ini, "response.buff_align") >= 8
  <2>1. [key |-> "response.buff_align", def |-> 1024, least |-> 8] \in Settings
    OBVIOUS
  <2>2. \A s \in Settings : s.key = "response.buff_align" => s.def \in Int /\ s.least = 8
    OBVIOUS
  <2> HIDE DEF Settings
  <2> QED
    BY <2>1, <2>2, SettingIs
<1>4. Setting(ini, "tcp.in.recv_buf.init") \in Int /\ Setting(ini, "tcp.in.recv_buf.init") >= 4
  <2>1. [key |-> "tcp.in.recv_buf.init", def |-> 256, least |-> 4] \in Settings
    OBVIOUS
  <2>2. \A s \in Settings : s.key = "tcp.in.recv_buf.init" => s.def \in Int /\ s.least = 4
    OBVIOUS
  <2> HIDE DEF Settings
  <2> QED
    BY <2>1, <2>2, SettingIs
<1>5. RecvBufMax(ini) >= Setting(ini, "tcp.in.recv_buf.init")
  BY <1>4, AtLeastIs DEF RecvBufMax
<1> QED
  BY <1>1, <1>2, <1>3, <1>4, <1>5 DEF Serviceable

-----------------------------------------------------------------------------
(* What a configuration is.                                                *)

Early == {"directory", "log", "config", "cOpen", "cCall", "cRead", "cDrop", "cListen"}

\* The two blocks of a configuration are there before it is.
Configured ==
  /\ IsText(env.text)
  /\ \A i \in 1 .. Len(ports) : ports[i].port \in Port
  /\ pc \in {"cOpen", "cCall", "cRead"} => "ini" \in heap
  /\ pc = "cListen" => {"ini", "text"} \subseteq heap
  /\ config # <<>> => /\ ports # <<>> /\ Serviceable(config[1])
                      /\ {"ini", "text"} \subseteq heap
                      /\ pc \notin Early

LEMMA ConfiguredInit == Init => Configured
<1> SUFFICES ASSUME Init PROVE Configured
  OBVIOUS
<1>1. IsText(env.text)
  BY EnvsAssumption DEF Init
<1> QED
  BY <1>1 DEF Init, Configured

\* A step that has nothing to do with it.
LEMMA ConfiguredKept ==
  ASSUME Configured, UNCHANGED <<env, ports, config>>,
         \A b \in {"ini", "text"} : b \in heap => b \in heap',
         \/ pc' \notin Early
         \/ pc \in Early /\ pc' \in Early \ {"cOpen", "cCall", "cRead", "cListen"}
         \/ pc \in {"cOpen", "cCall"} /\ pc' \in {"cCall", "cRead"}
  PROVE  Configured'
BY DEF Configured, Early, Serviceable, Setting, AtLeast, GetInt

LEMMA ConfiguredStep == Configured /\ [Next]_vars => Configured'
<1> SUFFICES ASSUME Configured, [Next]_vars PROVE Configured'
  OBVIOUS
<1> USE DEF Fail, Go, Early
<1>1. CASE SetDirectory
  BY <1>1, ConfiguredKept DEF SetDirectory
<1>2. CASE OpenLog
  BY <1>2, ConfiguredKept DEF OpenLog
<1>3. CASE ConfigInit
  <2>1. /\ pc = "config" /\ UNCHANGED <<env, config, ports>>
        /\ \/ pc' = "tServer" /\ heap \subseteq heap'
           \/ pc' \in {"cRead", "cOpen"} /\ heap \cup {"ini"} \subseteq heap'
    BY <1>3 DEF ConfigInit, NoConfig
  <2>2. CASE pc' = "tServer"
    BY <2>1, <2>2, ConfiguredKept
  <2>3. CASE pc' \in {"cRead", "cOpen"}
    BY <2>1, <2>3 DEF Configured
  <2> QED
    BY <2>1, <2>2, <2>3
<1>4. CASE OpenConfigDll
  <2>1. pc = "cOpen" /\ pc' \in {"cCall", "cDrop"} /\ UNCHANGED <<env, heap, config, ports>>
    BY <1>4, Zenon DEF OpenConfigDll
  <2> QED
    BY <2>1, ConfiguredKept
<1>5. CASE CallConfig
  <2>1. pc = "cCall" /\ pc' \in {"cRead", "cDrop"} /\ UNCHANGED <<env, heap, config, ports>>
    BY <1>5, Zenon DEF CallConfig
  <2> QED
    BY <2>1, ConfiguredKept
<1>6. CASE ReadText
  <2>1. /\ pc = "cRead" /\ UNCHANGED <<env, config, ports>>
        /\ \/ pc' = "cListen" /\ heap' = (heap \ {"content"}) \cup {"text"}
           \/ pc' = "tServer"
    BY <1>6, Zenon DEF ReadText, NoConfig
  <2> QED
    BY <2>1 DEF Configured
<1>7. CASE DropContent
  BY <1>7 DEF DropContent, NoConfig, Configured
<1>8. CASE Listen
  <2> DEFINE ini == Parse(env.text)
             l   == LoadListen(ini)
  <2>1. /\ pc = "cListen" /\ env' = env /\ ports' = l.ports
        /\ \/ l.r = 0 /\ config' = <<ini>> /\ pc' = "library" /\ heap' = heap
           \/ config' = config /\ pc' = "tServer"
    BY <1>8, Zenon DEF Listen, NoConfig
  <2>2. IsText(env.text) /\ ini \in InisOf(env.text)
    BY ParseIn DEF Configured
  <2>3. l \in Lists /\ (l.r = 0 => l.ports # <<>>)
    BY <2>2, LoadListenIn
  <2>4. Serviceable(ini)
    BY <2>2, AlwaysServiceable
  <2> HIDE DEF ini, l
  <2>5. \A i \in 1 .. Len(l.ports) : l.ports[i].port \in Port
    <3>1. l.ports \in Seq(Ports)
      BY <2>3 DEF Lists
    <3>2. \A i \in 1 .. Len(l.ports) : l.ports[i] \in Ports
      BY <3>1
    <3> QED
      BY <3>2 DEF Ports
  <2>6. CASE l.r = 0 /\ config' = <<ini>> /\ pc' = "library" /\ heap' = heap
    <3>1. config'[1] = ini
      BY <2>6
    <3>2. Serviceable(config[1])'
      BY <2>4, <3>1 DEF Serviceable, Setting, AtLeast, GetInt
    <3> QED
      BY <2>1, <2>2, <2>3, <2>5, <2>6, <3>2 DEF Configured
  <2>7. CASE config' = config /\ pc' = "tServer"
    <3>1. config = <<>>
      BY <2>1 DEF Configured
    <3> QED
      BY <2>1, <2>2, <2>5, <2>7, <3>1 DEF Configured
  <2> QED
    BY <2>1, <2>6, <2>7
<1>9. CASE Smash
  BY <1>9, ConfiguredKept DEF Smash
<1>10. CASE LibraryInit
  BY <1>10, ConfiguredKept DEF LibraryInit
<1>11. CASE LoadCore
  <2>1. pc' \in {"module", "iClasses"} /\ UNCHANGED <<env, heap, config, ports>>
    BY <1>11, Zenon DEF LoadCore
  <2> QED
    BY <2>1, ConfiguredKept
<1>12. CASE LibraryFails
  BY <1>12, ConfiguredKept DEF LibraryFails, DestroyClasses, CloseCore
<1>13. CASE ModuleInit
  <2>1. /\ pc' \in {"tServer", "mLoad", "mVersion", "mDrop"}
        /\ heap \subseteq heap' /\ UNCHANGED <<env, config, ports>>
    BY <1>13 DEF ModuleInit
  <2> QED
    BY <2>1, ConfiguredKept
<1>14. CASE LoadModule
  <2>1. pc' \in {"mVersion", "mDrop"} /\ UNCHANGED <<env, heap, config, ports>>
    BY <1>14, Zenon DEF LoadModule
  <2> QED
    BY <2>1, ConfiguredKept
<1>15. CASE CheckVersion
  <2>1. pc' \in {"server", "mDrop", "crashed"} /\ UNCHANGED <<env, heap, config, ports>>
    BY <1>15, Zenon DEF CheckVersion
  <2> QED
    BY <2>1, ConfiguredKept
<1>16. CASE ModuleFails
  BY <1>16, ConfiguredKept DEF ModuleFails, UnloadModule
<1>17. CASE ServerInit
  BY <1>17, ConfiguredKept DEF ServerInit, NoConfig
<1>18. CASE Run
  BY <1>18, ConfiguredKept DEF Run
<1>19. CASE ServerTerm
  BY <1>19, ConfiguredKept DEF ServerTerm
<1>20. CASE ModuleTerm
  <2>1. /\ pc' = "tClasses" /\ UNCHANGED <<env, config, ports>>
        /\ heap' = heap \/ heap' = heap \ {"module"}
    BY <1>20, Zenon DEF ModuleTerm, UnloadModule
  <2> QED
    BY <2>1, ConfiguredKept
<1>21. CASE LibraryTerm
  BY <1>21, ConfiguredKept DEF LibraryTerm, DestroyClasses, CloseCore
<1>22. CASE ConfigTerm
  BY <1>22 DEF ConfigTerm, Configured
<1>23. CASE CloseLog
  BY <1>23, ConfiguredKept DEF CloseLog
<1>24. CASE UNCHANGED vars
  BY <1>24 DEF vars, Configured, Serviceable, Setting, AtLeast, GetInt
<1> QED
  BY <1>1, <1>2, <1>3, <1>4, <1>5, <1>6, <1>7, <1>8, <1>9, <1>10, <1>11, <1>12, <1>13, <1>14,
     <1>15, <1>16, <1>17, <1>18, <1>19, <1>20, <1>21, <1>22, <1>23, <1>24 DEF Next

\* gr_main keeps its variables in their sets, and a configuration, from whatever text it was made,
\* has a port to listen on and settings a server can be built with (gr_config.c:212-326, 513-899).
THEOREM TypeCorrect == Spec => []TypeOK
<1>1. IInv /\ Configured => TypeOK
  BY DEF IInv, Types, Configured, TypeOK
<1> QED
  BY InitHeld, StepHeld, ConfiguredInit, ConfiguredStep, <1>1, PTL DEF Spec

-----------------------------------------------------------------------------
(* Where the sections and items come from.                                 *)

NoHead(text, i, j) == \A h \in i + 1 .. j : ~ IsHead(text[h])

\* The lines of a section: those up to the next header.
LEMMA UntilNextHead ==
  ASSUME NEW text, IsText(text), NEW h \in 1 .. Len(text), NEW i \in Int
  PROVE  i \in h + 1 .. NextHead(text, h) - 1
           <=> i \in h + 1 .. Len(text) /\ NoHead(text, h, i)
<1> DEFINE H == {j \in h + 1 .. Len(text) : IsHead(text[j])}
           S == H \cup {Len(text) + 1}
           m == Min(S)
<1>1. Len(text) \in Nat
  BY DEF IsText
<1>2. S \subseteq Nat /\ S # {}
  BY <1>1
<1>3. m \in S /\ \A x \in S : m <= x
  <2> HIDE DEF S
  <2> QED
    BY <1>2, MinLeast
<1>4. NextHead(text, h) = m
  BY DEF NextHead
<1> HIDE DEF m
<1>5. m \in Int /\ m <= Len(text) + 1
  BY <1>1, <1>3
<1>6. ASSUME i \in h + 1 .. m - 1 PROVE i \in h + 1 .. Len(text) /\ NoHead(text, h, i)
  <2>1. i \in h + 1 .. Len(text)
    BY <1>1, <1>5, <1>6
  <2>2. ASSUME NEW g \in h + 1 .. i, IsHead(text[g]) PROVE FALSE
    <3>1. g \in H
      BY <1>1, <2>1, <2>2
    <3>2. m <= g
      <4> HIDE DEF H
      <4> QED
        BY <1>3, <3>1
    <3> QED
      BY <1>5, <1>6, <2>2, <3>2
  <2> QED
    BY <2>1, <2>2 DEF NoHead
<1>7. ASSUME i \in h + 1 .. Len(text), NoHead(text, h, i) PROVE i \in h + 1 .. m - 1
  <2> SUFFICES ASSUME m <= i PROVE FALSE
    BY <1>1, <1>5, <1>7
  <2>1. m \in H
    BY <1>1, <1>3, <1>7
  <2> QED
    BY <1>5, <1>7, <2>1 DEF NoHead
<1> QED
  BY <1>4, <1>6, <1>7

LEMMA NextHeadIs ==
  ASSUME NEW text, IsText(text), NEW h \in 1 .. Len(text)
  PROVE  NextHead(text, h) \in Int /\ NextHead(text, h) <= Len(text) + 1
<1> DEFINE S == {j \in h + 1 .. Len(text) : IsHead(text[j])} \cup {Len(text) + 1}
<1>1. Len(text) \in Nat
  BY DEF IsText
<1>2. S \subseteq Nat /\ Len(text) + 1 \in S
  BY <1>1
<1> DEFINE m == Min(S)
<1>3. NextHead(text, h) = m
  BY DEF NextHead
<1>4. m \in S /\ m <= Len(text) + 1
  <2> HIDE DEF S
  <2>1. S # {}
    BY <1>2
  <2> QED
    BY <1>2, <2>1, MinLeast
<1> HIDE DEF m, S
<1> QED
  BY <1>2, <1>3, <1>4

\* After k lines of a text, hp gives the line of each section's header, ip that of each item.
HeadsAt(ini, text, k, hp) ==
  /\ \A s \in 1 .. Len(ini.sections) :
       /\ hp[s] \in 1 .. k /\ IsHead(text[hp[s]])
       /\ ini.sections[s].name = SectionName(text[hp[s]])
  /\ \A s, t \in 1 .. Len(ini.sections) : s < t => hp[s] < hp[t]
  /\ \A h \in 1 .. k : IsHead(text[h]) => \E s \in 1 .. Len(ini.sections) : hp[s] = h

ItemsAt(ini, text, k, hp, ip) ==
  \A s \in 1 .. Len(ini.sections) :
    LET items == ini.sections[s].items IN
    /\ \A m \in 1 .. Len(items) :
         /\ ip[s][m] \in hp[s] + 1 .. k /\ NoHead(text, hp[s], ip[s][m])
         /\ IsItem(text[ip[s][m]])
         /\ items[m].key = text[ip[s][m]].key /\ items[m].val = text[ip[s][m]].val
    /\ \A m, q \in 1 .. Len(items) : m < q => ip[s][m] < ip[s][q]

ItemsFound(ini, text, k, ip) ==
  \A i \in 1 .. k : IsItem(text[i]) =>
    \E s \in 1 .. Len(ini.sections) : \E m \in 1 .. Len(ini.sections[s].items) : ip[s][m] = i

\* Nothing in these lines is out of place, and there was room for all of them.
Legal(ini, text, k) ==
  /\ \A i \in 1 .. k : /\ text[i].kind \notin {"single", "text"}
                       /\ text[i].kind = "item" => \E h \in 1 .. i : IsHead(text[h])
  /\ Len(ini.sections) <= MaxSections
  /\ \A s \in 1 .. Len(ini.sections) : Len(ini.sections[s].items) <= MaxItems

Read(ini, text, k, hp, ip) ==
  HeadsAt(ini, text, k, hp) /\ ItemsAt(ini, text, k, hp, ip) /\ ItemsFound(ini, text, k, ip)

LEMMA LinesAt ==
  ASSUME NEW text, IsText(text), NEW ini \in InisOf(text)
  PROVE  /\ Len(text) \in Nat /\ DOMAIN text = 1 .. Len(text)
         /\ Len(ini.sections) \in Nat /\ DOMAIN ini.sections = 1 .. Len(ini.sections)
         /\ \A s \in 1 .. Len(ini.sections) :
              /\ Len(ini.sections[s].items) \in Nat
              /\ ini.sections[s].items \in Seq(ItemsOf(text))
<1>1. ini.sections \in Seq(SectionsOf(text))
  BY DEF InisOf
<1>2. \A s \in 1 .. Len(ini.sections) : ini.sections[s] \in SectionsOf(text)
  BY <1>1
<1>3. \A s \in 1 .. Len(ini.sections) : ini.sections[s].items \in Seq(ItemsOf(text))
  BY <1>2 DEF SectionsOf
<1> QED
  BY <1>1, <1>3 DEF IsText

\* What is found is what is written.
LEMMA FindIsWritten ==
  ASSUME NEW text, IsText(text), NEW ini \in InisOf(text), NEW hp, NEW ip,
         Read(ini, text, Len(text), hp, ip), NEW name, NEW key
  PROVE  Find(ini, name, key) = Written(text, name, key)
<1> DEFINE n == Len(text)
           ss == ini.sections
           S == {s \in 1 .. Len(ss) : ss[s].name = name}
           H == {h \in 1 .. n : IsHead(text[h]) /\ SectionName(text[h]) = name}
           f == FindSection(ini, name)
           J == {m \in 1 .. Len(ss[f].items) : ss[f].items[m].key = key}
           g == Min(H)
           L == {i \in g + 1 .. NextHead(text, g) - 1 : IsItem(text[i]) /\ text[i].key = key}
<1>1. /\ n \in Nat /\ Len(ss) \in Nat
      /\ \A s \in 1 .. Len(ss) : Len(ss[s].items) \in Nat
  BY LinesAt
<1>2. f = IF S # {} THEN Min(S) ELSE 0
  BY DEF FindSection, SelectInSeq
<1>3. Find(ini, name, key) = LET m == IF f = 0 THEN 0 ELSE IF J # {} THEN Min(J) ELSE 0
                             IN  IF m = 0 THEN Absent ELSE ss[f].items[m].val
  BY DEF Find, SelectInSeq
<1>4. Written(text, name, key) = LET lines == IF H = {} THEN {} ELSE L
                                 IN  IF lines = {} THEN Absent ELSE text[Min(lines)].val
  BY DEF Written
<1>5. HeadsAt(ini, text, n, hp)
  BY DEF Read
<1>6. \A h \in H : \E s \in S : hp[s] = h
  BY <1>5 DEF HeadsAt
<1>7. \A s \in S : hp[s] \in H
  BY <1>5 DEF HeadsAt
<1>8. S = {} <=> H = {}
  <2> HIDE DEF S, H
  <2> QED
    BY <1>6, <1>7
<1>9. S \subseteq Nat /\ H \subseteq Nat
  BY <1>1
<1> HIDE DEF f, g
<1>10. CASE S = {}
  <2> HIDE DEF S, H, J, L
  <2> QED
    BY <1>2, <1>3, <1>4, <1>8, <1>10
<1>11. CASE S # {}
  <2>1. f \in S /\ \A s \in S : f <= s
    <3> HIDE DEF S
    <3> QED
      BY <1>2, <1>9, <1>11, MinLeast
  <2>2. hp[f] \in H /\ \A h \in H : hp[f] <= h
    <3>1. ASSUME NEW h \in H PROVE hp[f] <= h
      <4>1. PICK s \in S : hp[s] = h
        <5> HIDE DEF S, H
        <5> QED
          BY <1>6
      <4>2. f <= s
        <5> HIDE DEF S, H
        <5> QED
          BY <2>1
      <4>3. hp[f] \in Int
        BY <1>1, <1>5, <2>1 DEF HeadsAt
      <4> QED
        BY <1>1, <1>5, <2>1, <4>1, <4>2, <4>3 DEF HeadsAt
    <3> HIDE DEF S, H
    <3> QED
      BY <1>7, <2>1, <3>1
  <2>3. g = hp[f]
    <3> HIDE DEF H
    <3> QED
      BY <1>9, <2>2, MinIs DEF g
  <2>4. /\ f \in 1 .. Len(ss) /\ f # 0 /\ g \in 1 .. n /\ IsHead(text[g])
        /\ g \in Nat
    BY <1>1, <2>1, <2>2, <2>3
  <2>5. \A i \in Int : i \in g + 1 .. NextHead(text, g) - 1
                         <=> i \in g + 1 .. n /\ NoHead(text, g, i)
    BY <2>4, UntilNextHead
  <2>6. \A m \in 1 .. Len(ss[f].items) :
          /\ ip[f][m] \in g + 1 .. n /\ NoHead(text, g, ip[f][m]) /\ IsItem(text[ip[f][m]])
          /\ ss[f].items[m].key = text[ip[f][m]].key /\ ss[f].items[m].val = text[ip[f][m]].val
    BY <2>3, <2>4 DEF Read, ItemsAt
  <2>7. \A m, q \in 1 .. Len(ss[f].items) : m < q => ip[f][m] < ip[f][q]
    BY <2>4 DEF Read, ItemsAt
  <2>8. \A m \in J : ip[f][m] \in L
    <3> SUFFICES ASSUME NEW m \in J PROVE ip[f][m] \in L
      OBVIOUS
    <3>1. m \in 1 .. Len(ss[f].items) /\ ss[f].items[m].key = key
      OBVIOUS
    <3>2. ip[f][m] \in g + 1 .. n /\ ip[f][m] \in Int
      BY <1>1, <2>4, <2>6, <3>1
    <3> QED
      BY <2>5, <2>6, <3>1, <3>2
  <2>9. ASSUME NEW i \in L PROVE \E m \in J : ip[f][m] = i
    <3>1. i \in g + 1 .. n /\ NoHead(text, g, i) /\ IsItem(text[i]) /\ text[i].key = key
      BY <2>5
    <3>2. i \in 1 .. n
      BY <1>1, <2>4, <3>1
    <3>3. PICK s \in 1 .. Len(ss) : \E m \in 1 .. Len(ss[s].items) : ip[s][m] = i
      BY <3>1, <3>2 DEF Read, ItemsFound
    <3>4. PICK m \in 1 .. Len(ss[s].items) : ip[s][m] = i
      BY <3>3
    <3>5. i \in hp[s] + 1 .. n /\ NoHead(text, hp[s], i) /\ ss[s].items[m].key = text[i].key
      BY <3>4 DEF Read, ItemsAt
    <3>6. hp[s] \in 1 .. n /\ IsHead(text[hp[s]])
      BY <1>5 DEF HeadsAt
    <3>7. hp[s] = g
      <4>1. /\ i \in Int /\ g \in Int /\ hp[s] \in Int /\ g < i /\ hp[s] < i
            /\ IsHead(text[g]) /\ IsHead(text[hp[s]])
        BY <1>1, <2>4, <3>1, <3>5, <3>6
      <4>2. ~ (g \in hp[s] + 1 .. i) /\ ~ (hp[s] \in g + 1 .. i)
        BY <3>1, <3>5, <4>1 DEF NoHead
      <4> HIDE DEF g
      <4> QED
        BY <4>1, <4>2
    <3>8. s = f
      BY <1>1, <1>5, <2>3, <2>4, <3>7 DEF HeadsAt
    <3> QED
      BY <3>1, <3>4, <3>5, <3>8
  <2>10. J = {} <=> L = {}
    <3> HIDE DEF J, L
    <3> QED
      BY <2>8, <2>9
  <2>11. J \subseteq Nat /\ L \subseteq Nat
    BY <1>1, <2>4
  <2> DEFINE a == Min(J)
  <2>12. ASSUME J # {} PROVE a # 0 /\ ss[f].items[a].val = text[Min(L)].val
    <3>1. a \in J /\ \A m \in J : a <= m
      <4> HIDE DEF J
      <4> QED
        BY <2>11, <2>12, MinLeast
    <3> HIDE DEF a
    <3>2. ip[f][a] \in L
      <4> HIDE DEF J, L
      <4> QED
        BY <2>8, <3>1
    <3>3. a \in 1 .. Len(ss[f].items) /\ ip[f][a] \in Int
      BY <2>11, <3>1, <3>2
    <3>4. ASSUME NEW i \in L PROVE ip[f][a] <= i
      <4>1. PICK m \in J : ip[f][m] = i
        <5> HIDE DEF J, L
        <5> QED
          BY <2>9
      <4>2. a <= m
        <5> HIDE DEF J
        <5> QED
          BY <3>1
      <4>3. m \in 1 .. Len(ss[f].items)
        OBVIOUS
      <4>4. CASE a = m
        BY <3>3, <4>1, <4>4
      <4>5. CASE a < m
        <5>1. ip[f][a] < ip[f][m]
          BY <2>7, <3>3, <4>3, <4>5
        <5> QED
          BY <2>11, <3>3, <4>1, <5>1
      <4> QED
        BY <1>1, <2>4, <3>3, <4>2, <4>3, <4>4, <4>5
    <3>5. Min(L) = ip[f][a]
      <4> HIDE DEF L, J
      <4> QED
        BY <2>11, <3>2, <3>4, MinIs
    <3>6. a # 0
      BY <1>1, <2>4, <3>3
    <3>7. ss[f].items[a].val = text[ip[f][a]].val
      BY <2>6, <3>3
    <3> QED
      BY <3>5, <3>6, <3>7
  <2> HIDE DEF J, L, S, H
  <2> QED
    BY <1>3, <1>4, <1>8, <1>11, <2>4, <2>10, <2>12
<1> QED
  BY <1>10, <1>11

-----------------------------------------------------------------------------
(* One line more.                                                          *)

\* A line adds a section, or an item to the last one.
AddsHead(new, ini, line) ==
  LET n == Len(ini.sections) IN
  /\ Len(new.sections) = n + 1
  /\ \A s \in 1 .. n : new.sections[s] = ini.sections[s]
  /\ new.sections[n + 1].name = SectionName(line)
  /\ Len(new.sections[n + 1].items) = 0

AddsItem(new, ini, line) ==
  LET n    == Len(ini.sections)
      size == Len(ini.sections[n].items)
  IN  /\ Len(new.sections) = n
      /\ \A s \in 1 .. n : s # n => new.sections[s] = ini.sections[s]
      /\ new.sections[n].name = ini.sections[n].name
      /\ Len(new.sections[n].items) = size + 1
      /\ \A m \in 1 .. size : new.sections[n].items[m] = ini.sections[n].items[m]
      /\ new.sections[n].items[size + 1].key = line.key
      /\ new.sections[n].items[size + 1].val = line.val

\* A header begins a section.
LEMMA ReadHead ==
  ASSUME NEW text, IsText(text), NEW ini \in InisOf(text), NEW k \in 1 .. Len(text),
         NEW hp, NEW ip, Read(ini, text, k - 1, hp, ip),
         NEW new, AddsHead(new, ini, text[k]), IsHead(text[k])
  PROVE  \E hq, iq : Read(new, text, k, hq, iq)
<1> DEFINE n == Len(ini.sections)
           hq == [s \in Nat |-> IF s = n + 1 THEN k ELSE hp[s]]
<1>1. n \in Nat /\ Len(text) \in Nat
  BY LinesAt
<1>2. k \in Int /\ \A i \in 1 .. k : i = k \/ i \in 1 .. k - 1
  BY <1>1
<1>3. /\ Len(new.sections) = n + 1
      /\ \A s \in 1 .. n : new.sections[s] = ini.sections[s]
      /\ new.sections[n + 1].name = SectionName(text[k])
      /\ Len(new.sections[n + 1].items) = 0
  BY DEF AddsHead
<1>4. /\ \A s \in 1 .. n : /\ hp[s] \in 1 .. k - 1 /\ IsHead(text[hp[s]])
                           /\ ini.sections[s].name = SectionName(text[hp[s]])
      /\ \A s, t \in 1 .. n : s < t => hp[s] < hp[t]
      /\ \A h \in 1 .. k - 1 : IsHead(text[h]) => \E s \in 1 .. n : hp[s] = h
  BY DEF Read, HeadsAt
<1>5. hq[n + 1] = k /\ \A s \in 1 .. n : hq[s] = hp[s]
  <2> HIDE DEF n
  <2> QED
    BY <1>1
<1>6. \A s \in 1 .. n + 1 : s = n + 1 \/ s \in 1 .. n
  <2> HIDE DEF n
  <2> QED
    BY <1>1
<1> HIDE DEF n, hq
<1>7. HeadsAt(new, text, k, hq)
  <2>1. ASSUME NEW s \in 1 .. n + 1
        PROVE  /\ hq[s] \in 1 .. k /\ IsHead(text[hq[s]])
               /\ new.sections[s].name = SectionName(text[hq[s]])
    <3>1. CASE s = n + 1
      BY <1>3, <1>5, <3>1, k \in 1 .. k
    <3>2. CASE s \in 1 .. n
      <4>1. hp[s] \in 1 .. k
        BY <1>2, <1>4, <3>2
      <4> QED
        BY <1>3, <1>4, <1>5, <3>2, <4>1
    <3> QED
      BY <1>6, <3>1, <3>2
  <2>2. ASSUME NEW s \in 1 .. n + 1, NEW t \in 1 .. n + 1, s < t PROVE hq[s] < hq[t]
    <3>1. s \in 1 .. n
      BY <1>1, <2>2
    <3>2. CASE t = n + 1
      <4>1. hp[s] < k
        BY <1>2, <1>4, <3>1
      <4> QED
        BY <1>5, <3>1, <3>2, <4>1
    <3>3. CASE t \in 1 .. n
      BY <1>4, <1>5, <2>2, <3>1, <3>3
    <3> QED
      BY <1>6, <3>2, <3>3
  <2>3. ASSUME NEW h \in 1 .. k, IsHead(text[h]) PROVE \E s \in 1 .. n + 1 : hq[s] = h
    <3>1. CASE h = k
      <4>1. n + 1 \in 1 .. n + 1
        BY <1>1
      <4> QED
        BY <1>5, <3>1, <4>1
    <3>2. CASE h \in 1 .. k - 1
      <4>1. PICK s \in 1 .. n : hp[s] = h
        BY <1>4, <2>3, <3>2
      <4>2. s \in 1 .. n + 1
        BY <1>1
      <4> QED
        BY <1>5, <4>1, <4>2
    <3> QED
      BY <1>2, <3>1, <3>2
  <2> QED
    BY <1>3, <2>1, <2>2, <2>3 DEF HeadsAt
<1>8. ItemsAt(new, text, k, hq, ip)
  <2> SUFFICES ASSUME NEW s \in 1 .. n + 1
               PROVE  LET list == new.sections[s].items IN
                      /\ \A m \in 1 .. Len(list) :
                           /\ ip[s][m] \in hq[s] + 1 .. k /\ NoHead(text, hq[s], ip[s][m])
                           /\ IsItem(text[ip[s][m]])
                           /\ list[m].key = text[ip[s][m]].key
                           /\ list[m].val = text[ip[s][m]].val
                      /\ \A m, q \in 1 .. Len(list) : m < q => ip[s][m] < ip[s][q]
    BY <1>3 DEF ItemsAt
  <2>1. CASE s = n + 1
    <3>1. \A m : m \notin 1 .. Len(new.sections[s].items)
      BY <1>3, <2>1
    <3> QED
      BY <3>1
  <2>2. CASE s \in 1 .. n
    <3>1. hp[s] \in Int
      BY <1>4, <2>2
    <3>2. \A i \in hp[s] + 1 .. k - 1 : i \in hp[s] + 1 .. k
      BY <1>2, <3>1
    <3>3. hq[s] = hp[s] /\ new.sections[s] = ini.sections[s]
      BY <1>3, <1>5, <2>2
    <3>4. ItemsAt(ini, text, k - 1, hp, ip) /\ s \in 1 .. Len(ini.sections)
      BY <2>2 DEF Read, n
    <3> QED
      BY <3>2, <3>3, <3>4 DEF ItemsAt
  <2> QED
    BY <1>6, <2>1, <2>2
<1>9. ItemsFound(new, text, k, ip)
  <2> SUFFICES ASSUME NEW i \in 1 .. k, IsItem(text[i])
               PROVE  \E s \in 1 .. n + 1 : \E m \in 1 .. Len(new.sections[s].items) : ip[s][m] = i
    BY <1>3 DEF ItemsFound
  <2>1. i # k
    BY DEF IsItem, IsHead
  <2>2. i \in 1 .. k - 1
    BY <1>2, <2>1
  <2>3. PICK s \in 1 .. n : \E m \in 1 .. Len(ini.sections[s].items) : ip[s][m] = i
    BY <2>2 DEF Read, ItemsFound, n
  <2>4. s \in 1 .. n + 1 /\ new.sections[s] = ini.sections[s]
    BY <1>1, <1>3
  <2> QED
    BY <2>3, <2>4
<1> QED
  BY <1>7, <1>8, <1>9 DEF Read

\* The last section is that of the last header.
LEMMA LastHead ==
  ASSUME NEW text, IsText(text), NEW ini \in InisOf(text), NEW k \in 1 .. Len(text), NEW hp,
         HeadsAt(ini, text, k - 1, hp), NEW n, n = Len(ini.sections), n # 0, ~ IsHead(text[k])
  PROVE  NoHead(text, hp[n], k)
<1> SUFFICES ASSUME NEW h \in hp[n] + 1 .. k, IsHead(text[h]) PROVE FALSE
  BY DEF NoHead
<1>1. Len(text) \in Nat /\ n \in Nat /\ n \in 1 .. n
  BY LinesAt
<1>2. hp[n] \in 1 .. k - 1
  BY <1>1 DEF HeadsAt
<1>3. h \in 1 .. k - 1 /\ h \in Int /\ hp[n] \in Int /\ hp[n] < h
  <2>1. h # k
    OBVIOUS
  <2> QED
    BY <1>1, <1>2, <2>1
<1>4. PICK t \in 1 .. n : hp[t] = h
  BY <1>3 DEF HeadsAt
<1>5. t = n \/ t < n
  BY <1>1
<1>6. t < n => hp[t] < hp[n]
  BY <1>1 DEF HeadsAt
<1> QED
  BY <1>3, <1>4, <1>5, <1>6

LEMMA Appended ==
  ASSUME NEW S, NEW q \in Seq(S), NEW e, NEW w, w = Append(q, e)
  PROVE  /\ Len(w) = Len(q) + 1 /\ w[Len(q) + 1] = e
         /\ \A m \in 1 .. Len(q) : w[m] = q[m]
OBVIOUS

\* An item belongs to the last one.
LEMMA ReadItem ==
  ASSUME NEW text, IsText(text), NEW ini \in InisOf(text), NEW k \in 1 .. Len(text),
         NEW hp, NEW ip, Read(ini, text, k - 1, hp, ip), Len(ini.sections) # 0,
         NEW new, AddsItem(new, ini, text[k]), IsItem(text[k])
  PROVE  \E hq, iq : Read(new, text, k, hq, iq)
<1> DEFINE n == Len(ini.sections)
           size == Len(ini.sections[n].items)
           last == size + 1
           iq == [s \in Nat |-> [m \in Nat |-> IF s = n /\ m = last THEN k ELSE ip[s][m]]]
           old(s) == ini.sections[s].items
           now(s) == new.sections[s].items
<1>1. n \in Nat /\ n \in 1 .. n /\ Len(text) \in Nat
  BY LinesAt
<1>2. size \in Nat /\ \A s \in 1 .. n : Len(old(s)) \in Nat
  BY <1>1, LinesAt
<1>3. k \in Int /\ \A i \in 1 .. k : i = k \/ i \in 1 .. k - 1
  BY <1>1
<1>4. /\ Len(new.sections) = n
      /\ \A s \in 1 .. n : s # n => new.sections[s] = ini.sections[s]
      /\ \A s \in 1 .. n : new.sections[s].name = ini.sections[s].name
      /\ Len(now(n)) = last
      /\ \A m \in 1 .. size : now(n)[m] = old(n)[m]
      /\ now(n)[last].key = text[k].key /\ now(n)[last].val = text[k].val
  BY DEF AddsItem
<1>5. /\ last \in Nat /\ last \in 1 .. last
      /\ \A m \in 1 .. last : m = last \/ m \in 1 .. size
      /\ \A m \in 1 .. size : m \in 1 .. last /\ m # last /\ m \in Nat
  <2> HIDE DEF size
  <2> QED
    BY <1>2
<1>6. iq[n][last] = k /\ \A m \in 1 .. size : iq[n][m] = ip[n][m]
  <2> HIDE DEF n, size, last
  <2> QED
    BY <1>1, <1>5
<1>7. ASSUME NEW s \in 1 .. n, s # n, NEW m \in Nat PROVE iq[s][m] = ip[s][m]
  <2>1. s \in Nat
    OBVIOUS
  <2> HIDE DEF n, last
  <2> QED
    BY <1>7, <2>1
<1>8. /\ \A s \in 1 .. n : hp[s] \in 1 .. k - 1 /\ IsHead(text[hp[s]])
      /\ NoHead(text, hp[n], k)
  <2>1. ~ IsHead(text[k])
    BY DEF IsItem, IsHead
  <2> QED
    BY <2>1, LastHead DEF Read, HeadsAt
<1>9. \A s \in 1 .. n :
        /\ \A m \in 1 .. Len(old(s)) :
             /\ ip[s][m] \in hp[s] + 1 .. k - 1 /\ NoHead(text, hp[s], ip[s][m])
             /\ IsItem(text[ip[s][m]])
             /\ old(s)[m].key = text[ip[s][m]].key /\ old(s)[m].val = text[ip[s][m]].val
        /\ \A m, q \in 1 .. Len(old(s)) : m < q => ip[s][m] < ip[s][q]
  BY DEF Read, ItemsAt
<1>10. \A i \in 1 .. k - 1 : IsItem(text[i]) =>
         \E s \in 1 .. n : \E m \in 1 .. Len(old(s)) : ip[s][m] = i
  BY DEF Read, ItemsFound
<1>11. HeadsAt(new, text, k, hp)
  <2>1. \A i \in 1 .. k - 1 : i \in 1 .. k
    BY <1>3
  <2>2. \A h \in 1 .. k : IsHead(text[h]) => h \in 1 .. k - 1
    BY <1>3 DEF IsItem, IsHead
  <2>3. HeadsAt(ini, text, k - 1, hp) /\ n = Len(ini.sections)
    BY DEF Read
  <2> HIDE DEF n, last, size, now, old
  <2> QED
    BY <1>4, <2>1, <2>2, <2>3 DEF HeadsAt
<1>12. size = Len(old(n)) /\ \A s \in 1 .. n : hp[s] \in Int
  BY <1>8
<1> HIDE DEF n, size, last, iq, old
<1>13. ASSUME NEW s \in 1 .. n
       PROVE  /\ \A m \in 1 .. Len(now(s)) :
                   /\ iq[s][m] \in hp[s] + 1 .. k /\ NoHead(text, hp[s], iq[s][m])
                   /\ IsItem(text[iq[s][m]])
                   /\ now(s)[m].key = text[iq[s][m]].key /\ now(s)[m].val = text[iq[s][m]].val
              /\ \A m, q \in 1 .. Len(now(s)) : m < q => iq[s][m] < iq[s][q]
  <2>1. hp[s] \in Int /\ \A i \in hp[s] + 1 .. k - 1 : i \in hp[s] + 1 .. k /\ i \in Int /\ i < k
    BY <1>3, <1>12
  <2>2. CASE s # n
    <3>1. now(s) = old(s)
      BY <1>4, <2>2 DEF old
    <3>2. \A m \in 1 .. Len(old(s)) : iq[s][m] = ip[s][m]
      BY <1>2, <1>7, <2>2
    <3> HIDE DEF now
    <3>3. ASSUME NEW m \in 1 .. Len(old(s))
          PROVE  /\ iq[s][m] \in hp[s] + 1 .. k /\ NoHead(text, hp[s], iq[s][m])
                 /\ IsItem(text[iq[s][m]])
                 /\ now(s)[m].key = text[iq[s][m]].key /\ now(s)[m].val = text[iq[s][m]].val
      <4>1. /\ ip[s][m] \in hp[s] + 1 .. k - 1 /\ NoHead(text, hp[s], ip[s][m])
            /\ IsItem(text[ip[s][m]])
            /\ old(s)[m].key = text[ip[s][m]].key /\ old(s)[m].val = text[ip[s][m]].val
        BY <1>9
      <4> QED
        BY <2>1, <3>1, <3>2, <4>1
    <3>4. \A m, q \in 1 .. Len(old(s)) : m < q => iq[s][m] < iq[s][q]
      BY <1>9, <3>2
    <3> QED
      BY <3>1, <3>3, <3>4
  <2>3. CASE s = n
    <3> HIDE DEF now
    <3>1. ASSUME NEW m \in 1 .. size
          PROVE  /\ iq[n][m] \in hp[n] + 1 .. k - 1 /\ NoHead(text, hp[n], iq[n][m])
                 /\ IsItem(text[iq[n][m]])
                 /\ now(n)[m].key = text[iq[n][m]].key /\ now(n)[m].val = text[iq[n][m]].val
      <4>1. m \in 1 .. Len(old(n)) /\ now(n)[m] = old(n)[m] /\ iq[n][m] = ip[n][m]
        BY <1>4, <1>6, <1>12 DEF now
      <4>2. /\ ip[n][m] \in hp[n] + 1 .. k - 1 /\ NoHead(text, hp[n], ip[n][m])
            /\ IsItem(text[ip[n][m]])
            /\ old(n)[m].key = text[ip[n][m]].key /\ old(n)[m].val = text[ip[n][m]].val
        BY <1>1, <1>9, <4>1
      <4> QED
        BY <4>1, <4>2
    <3>2. k \in hp[n] + 1 .. k
      BY <1>1, <1>3, <1>8
    <3>3. ASSUME NEW m \in 1 .. last, NEW q \in 1 .. last, m < q PROVE iq[n][m] < iq[n][q]
      <4>1. m \in 1 .. size
        BY <1>2, <1>5, <3>3 DEF last
      <4>2. CASE q = last
        BY <1>6, <2>1, <2>3, <3>1, <4>1, <4>2
      <4>3. CASE q \in 1 .. size
        <5>1. ip[n][m] < ip[n][q]
          BY <1>1, <1>9, <1>12, <3>3, <4>1, <4>3
        <5> QED
          BY <1>6, <4>1, <4>3, <5>1
      <4> QED
        BY <1>5, <4>2, <4>3
    <3>4. ASSUME NEW m \in 1 .. last
          PROVE  /\ iq[n][m] \in hp[n] + 1 .. k /\ NoHead(text, hp[n], iq[n][m])
                 /\ IsItem(text[iq[n][m]])
                 /\ now(n)[m].key = text[iq[n][m]].key /\ now(n)[m].val = text[iq[n][m]].val
      <4>1. CASE m = last
        BY <1>4, <1>6, <1>8, <3>2, <4>1 DEF now
      <4>2. CASE m \in 1 .. size
        BY <2>1, <2>3, <3>1, <4>2
      <4> QED
        BY <1>5, <4>1, <4>2
    <3>5. Len(now(n)) = last
      BY <1>4 DEF now
    <3> QED
      BY <2>3, <3>3, <3>4, <3>5
  <2> QED
    BY <2>2, <2>3
<1>14. ItemsAt(new, text, k, hp, iq)
  BY <1>4, <1>13 DEF ItemsAt
<1>15. ItemsFound(new, text, k, iq)
  <2> SUFFICES ASSUME NEW i \in 1 .. k, IsItem(text[i])
               PROVE  \E s \in 1 .. n : \E m \in 1 .. Len(now(s)) : iq[s][m] = i
    BY <1>4 DEF ItemsFound
  <2>1. CASE i = k
    BY <1>1, <1>4, <1>5, <1>6, <2>1
  <2>2. CASE i \in 1 .. k - 1
    <3>1. PICK s \in 1 .. n : \E m \in 1 .. Len(old(s)) : ip[s][m] = i
      BY <1>10, <2>2
    <3>2. PICK m \in 1 .. Len(old(s)) : ip[s][m] = i
      BY <3>1
    <3>3. CASE s # n
      <4>1. now(s) = old(s) /\ m \in Nat
        BY <1>4, <3>3 DEF old
      <4>2. iq[s][m] = i
        BY <1>7, <3>2, <3>3, <4>1
      <4> HIDE DEF now
      <4> QED
        BY <4>1, <4>2
    <3>4. CASE s = n
      <4>1. m \in 1 .. size /\ m \in 1 .. last /\ iq[n][m] = i
        BY <1>5, <1>6, <1>12, <3>2, <3>4
      <4>2. Len(now(n)) = last
        BY <1>4
      <4> HIDE DEF now
      <4> QED
        BY <1>1, <4>1, <4>2
    <3> QED
      BY <3>3, <3>4
  <2> QED
    BY <1>3, <2>1, <2>2
<1> QED
  BY <1>11, <1>14, <1>15 DEF Read

\* Any other line leaves the sections as they are.
LEMMA ReadOther ==
  ASSUME NEW text, IsText(text), NEW ini \in InisOf(text), NEW k \in 1 .. Len(text),
         NEW hp, NEW ip, Read(ini, text, k - 1, hp, ip),
         ~ IsHead(text[k]), ~ IsItem(text[k])
  PROVE  Read(ini, text, k, hp, ip)
<1>1. Len(text) \in Nat
  BY LinesAt
<1>2. \A i \in 1 .. k : i = k \/ i \in 1 .. k - 1
  BY <1>1
<1>3. \A i \in 1 .. k - 1 : i \in 1 .. k
  BY <1>1
<1>4. HeadsAt(ini, text, k, hp)
  BY <1>2, <1>3 DEF Read, HeadsAt
<1>5. \A s \in 1 .. Len(ini.sections) : \A i \in hp[s] + 1 .. k - 1 : i \in hp[s] + 1 .. k
  BY <1>1 DEF Read, HeadsAt
<1>6. ItemsAt(ini, text, k, hp, ip)
  BY <1>5 DEF Read, ItemsAt
<1>7. ItemsFound(ini, text, k, ip)
  BY <1>2 DEF Read, ItemsFound
<1> QED
  BY <1>4, <1>6, <1>7 DEF Read

\* Counting, by a list of what is counted.
LEMMA AtLeastAsMany ==
  ASSUME NEW N \in Nat, NEW S \in SUBSET (1 .. N), NEW n \in Nat, NEW f \in [1 .. n -> S],
         \A a, b \in 1 .. n : a < b => f[a] < f[b]
  PROVE  Cardinality(S) \in Nat /\ n <= Cardinality(S)
<1>1. IsFiniteSet(1 .. N) /\ IsFiniteSet(1 .. n) /\ Cardinality(1 .. n) = n
  <2>1. 1 \in Int /\ N \in Int /\ n \in Int
    OBVIOUS
  <2>2. /\ IsFiniteSet(1 .. N) /\ IsFiniteSet(1 .. n)
        /\ Cardinality(1 .. n) = IF 1 > n THEN 0 ELSE n - 1 + 1
    BY <2>1, FS_Interval
  <2> QED
    BY <2>2
<1>2. IsFiniteSet(S) /\ Cardinality(S) \in Nat
  BY <1>1, FS_Subset, FS_CardinalityType
<1>3. \A a, b \in 1 .. n : f[a] = f[b] => a = b
  <2> SUFFICES ASSUME NEW a \in 1 .. n, NEW b \in 1 .. n, a < b PROVE f[a] # f[b]
    OBVIOUS
  <2>1. f[a] < f[b]
    OBVIOUS
  <2>2. f[a] \in S
    OBVIOUS
  <2>3. \A x \in S : ~ (x < x)
    OBVIOUS
  <2> QED
    BY <2>1, <2>2, <2>3
<1>4. f \in Injection(1 .. n, S)
  BY <1>3 DEF Injection, IsInjective
<1> QED
  BY <1>1, <1>2, <1>4, FS_Injection

LEMMA AtMostAsMany ==
  ASSUME NEW S, NEW n \in Nat, NEW f, \A x \in S : \E a \in 1 .. n : f[a] = x
  PROVE  Cardinality(S) \in Nat /\ Cardinality(S) <= n
<1> DEFINE g == [x \in S |-> CHOOSE a \in 1 .. n : f[a] = x]
<1>1. g \in [S -> 1 .. n] /\ \A x \in S : f[g[x]] = x
  OBVIOUS
<1> HIDE DEF g
<1>2. g \in Injection(S, 1 .. n)
  BY <1>1 DEF Injection, IsInjective
<1>3. IsFiniteSet(1 .. n) /\ Cardinality(1 .. n) = n
  <2>1. 1 \in Int /\ n \in Int
    OBVIOUS
  <2>2. IsFiniteSet(1 .. n) /\ Cardinality(1 .. n) = IF 1 > n THEN 0 ELSE n - 1 + 1
    BY <2>1, FS_Interval
  <2> QED
    BY <2>2
<1>4. IsFiniteSet(S) /\ Cardinality(S) <= n
  BY <1>2, <1>3, FS_Injection
<1> QED
  BY <1>4, FS_CardinalityType

\* A header or an item there is no room for is one too many in the text.
LEMMA TooManyHeads ==
  ASSUME NEW text, IsText(text), NEW ini \in InisOf(text), NEW k \in 1 .. Len(text), NEW hp,
         HeadsAt(ini, text, k - 1, hp), IsHead(text[k]), Len(ini.sections) >= MaxSections
  PROVE  ~ WellFormed(text)
<1> DEFINE n == Len(ini.sections)
           S == {i \in 1 .. Len(text) : IsHead(text[i])}
           f == [s \in 1 .. n + 1 |-> IF s = n + 1 THEN k ELSE hp[s]]
<1>1. n \in Nat /\ Len(text) \in Nat /\ MaxSections \in Nat
  BY LinesAt, IniAssumption
<1>2. \A s \in 1 .. n : hp[s] \in 1 .. k - 1 /\ IsHead(text[hp[s]])
  BY DEF HeadsAt
<1>3. \A s, t \in 1 .. n : s < t => hp[s] < hp[t]
  BY DEF HeadsAt
<1> HIDE DEF n
<1>4. f \in [1 .. n + 1 -> S]
  BY <1>1, <1>2
<1>5. \A s, t \in 1 .. n + 1 : s < t => f[s] < f[t]
  <2> SUFFICES ASSUME NEW s \in 1 .. n + 1, NEW t \in 1 .. n + 1, s < t PROVE f[s] < f[t]
    OBVIOUS
  <2>1. s \in 1 .. n /\ f[s] = hp[s] /\ hp[s] \in 1 .. k - 1
    BY <1>1, <1>2
  <2>2. CASE t = n + 1
    BY <1>1, <2>1, <2>2
  <2>3. CASE t \in 1 .. n
    BY <1>1, <1>3, <2>1, <2>3
  <2> QED
    BY <1>1, <2>2, <2>3
<1>6. S \in SUBSET (1 .. Len(text)) /\ n + 1 \in Nat
  BY <1>1
<1>7. Cardinality(S) \in Nat /\ n + 1 <= Cardinality(S)
  <2> HIDE DEF S, f
  <2> QED
    BY <1>1, <1>4, <1>5, <1>6, AtLeastAsMany
<1>8. ~ (Cardinality(S) <= MaxSections)
  <2> HIDE DEF S
  <2> QED
    BY <1>1, <1>7 DEF n
<1> QED
  BY <1>8 DEF WellFormed

LEMMA TooManyItems ==
  ASSUME NEW text, IsText(text), NEW ini \in InisOf(text), NEW k \in 1 .. Len(text),
         NEW hp, NEW ip, Read(ini, text, k - 1, hp, ip), IsItem(text[k]),
         NEW n, n = Len(ini.sections), n # 0, Len(ini.sections[n].items) >= MaxItems
  PROVE  ~ WellFormed(text)
<1> DEFINE c == Len(ini.sections[n].items)
           S == {i \in hp[n] .. NextHead(text, hp[n]) - 1 : IsItem(text[i])}
           f == [m \in 1 .. c + 1 |-> IF m = c + 1 THEN k ELSE ip[n][m]]
<1>1. n \in Nat /\ n \in 1 .. n
  BY LinesAt
<1>2. c \in Nat /\ Len(text) \in Nat /\ MaxItems \in Nat
  BY <1>1, LinesAt, IniAssumption
<1>3. hp[n] \in 1 .. k - 1 /\ hp[n] \in 1 .. Len(text) /\ IsHead(text[hp[n]]) /\ hp[n] \in Nat
  <2>1. hp[n] \in 1 .. k - 1 /\ IsHead(text[hp[n]])
    BY <1>1 DEF Read, HeadsAt
  <2> QED
    BY <1>2, <2>1
<1>4. \A m \in 1 .. c : /\ ip[n][m] \in hp[n] + 1 .. k - 1
                        /\ NoHead(text, hp[n], ip[n][m]) /\ IsItem(text[ip[n][m]])
  BY <1>1 DEF Read, ItemsAt
<1>5. \A m, q \in 1 .. c : m < q => ip[n][m] < ip[n][q]
  BY <1>1 DEF Read, ItemsAt
<1>6. NoHead(text, hp[n], k)
  BY LastHead DEF Read, IsItem, IsHead
<1>7. \A i \in hp[n] + 1 .. Len(text) : NoHead(text, hp[n], i) /\ IsItem(text[i]) => i \in S
  <2> SUFFICES ASSUME NEW i \in hp[n] + 1 .. Len(text), NoHead(text, hp[n], i), IsItem(text[i])
               PROVE  i \in S
    OBVIOUS
  <2>1. i \in Int
    BY <1>2, <1>3
  <2>2. i \in hp[n] + 1 .. NextHead(text, hp[n]) - 1
    BY <1>3, <2>1, UntilNextHead
  <2>3. NextHead(text, hp[n]) \in Int
    BY <1>3, NextHeadIs
  <2> QED
    BY <1>3, <2>2, <2>3
<1> HIDE DEF c
<1>8. f \in [1 .. c + 1 -> S]
  <2> SUFFICES ASSUME NEW m \in 1 .. c + 1 PROVE f[m] \in S
    OBVIOUS
  <2>1. CASE m = c + 1
    <3>1. k \in hp[n] + 1 .. Len(text) /\ f[m] = k
      BY <1>2, <1>3, <2>1
    <3> HIDE DEF S, f
    <3> QED
      BY <1>6, <1>7, <3>1
  <2>2. CASE m \in 1 .. c
    <3>1. ip[n][m] \in hp[n] + 1 .. Len(text)
      <4>1. ip[n][m] \in hp[n] + 1 .. k - 1 /\ k - 1 <= Len(text)
        BY <1>2, <1>4, <2>2
      <4> QED
        BY <1>2, <1>3, <4>1
    <3>2. f[m] = ip[n][m]
      BY <1>2, <2>2
    <3> HIDE DEF S, f
    <3> QED
      BY <1>4, <1>7, <2>2, <3>1, <3>2
  <2> QED
    BY <1>2, <2>1, <2>2
<1>9. \A s, t \in 1 .. c + 1 : s < t => f[s] < f[t]
  <2> SUFFICES ASSUME NEW s \in 1 .. c + 1, NEW t \in 1 .. c + 1, s < t PROVE f[s] < f[t]
    OBVIOUS
  <2>1. s \in 1 .. c /\ f[s] = ip[n][s] /\ ip[n][s] \in hp[n] + 1 .. k - 1
    BY <1>2, <1>4
  <2>2. CASE t = c + 1
    BY <1>2, <1>3, <2>1, <2>2
  <2>3. CASE t \in 1 .. c
    BY <1>2, <1>5, <2>1, <2>3
  <2> QED
    BY <1>2, <2>2, <2>3
<1>10. S \in SUBSET (1 .. Len(text)) /\ c + 1 \in Nat
  <2>1. NextHead(text, hp[n]) \in Int /\ NextHead(text, hp[n]) <= Len(text) + 1
    BY <1>3, NextHeadIs
  <2> QED
    BY <1>2, <1>3, <2>1
<1>11. Cardinality(S) \in Nat /\ c + 1 <= Cardinality(S)
  <2> HIDE DEF S, f
  <2> QED
    BY <1>2, <1>8, <1>9, <1>10, AtLeastAsMany
<1>12. ~ (Cardinality(S) <= MaxItems)
  <2> HIDE DEF S
  <2> QED
    BY <1>2, <1>11 DEF c
<1> QED
  BY <1>3, <1>12 DEF WellFormed

\* A line makes a text bad only when the text is not well formed.
LEMMA ParseStep ==
  ASSUME NEW text, IsText(text), NEW ini \in InisOf(text), NEW k \in 1 .. Len(text),
         NEW hp, NEW ip, Read(ini, text, k - 1, hp, ip), Legal(ini, text, k - 1), ~ ini.bad,
         NEW new, new = ParseLine(ini, text[k])
  PROVE  IF new.bad THEN ~ WellFormed(text)
         ELSE Legal(new, text, k) /\ \E hq, iq : Read(new, text, k, hq, iq)
<1> DEFINE line == text[k]
           n == Len(ini.sections)
<1>1. /\ Len(text) \in Nat /\ DOMAIN text = 1 .. Len(text) /\ n \in Nat
      /\ DOMAIN ini.sections = 1 .. n
      /\ \A s \in 1 .. n : Len(ini.sections[s].items) \in Nat
      /\ \A s \in 1 .. n : ini.sections[s].items \in Seq(ItemsOf(text))
  BY LinesAt
<1>2. IsLine(line) /\ new \in InisOf(text)
  BY <1>1, ParseLineIn DEF IsText
<1>3. \A i \in 1 .. k : i = k \/ i \in 1 .. k - 1
  BY <1>1
<1>4. MaxSections \in Nat /\ MaxItems \in Nat
  BY IniAssumption
<1>5. ini.sections \in Seq(SectionsOf(text)) /\ ini.bad \in BOOLEAN
  BY DEF InisOf
<1>6. CASE line.kind \in {"single", "text"}
  <2>1. ~ WellFormed(text)
    BY <1>6 DEF WellFormed
  <2>2. new = [ini EXCEPT !.bad = TRUE]
    BY <1>6 DEF ParseLine
  <2>3. new.bad
    BY <2>2 DEF InisOf
  <2> QED
    BY <2>1, <2>3
<1>7. ASSUME new = ini, ~ IsHead(line), ~ IsItem(line), line.kind \notin {"single", "text"},
             line.kind = "item" => n # 0
      PROVE  ~ new.bad /\ Legal(new, text, k) /\ \E hq, iq : Read(new, text, k, hq, iq)
  <2>1. Read(new, text, k, hp, ip)
    BY <1>7, ReadOther
  <2>2. line.kind = "item" => \E h \in 1 .. k : IsHead(text[h])
    <3>1. n # 0 => hp[n] \in 1 .. k - 1 /\ IsHead(text[hp[n]])
      BY <1>1 DEF Read, HeadsAt
    <3> QED
      BY <1>1, <1>7, <3>1
  <2>3. Legal(new, text, k)
    BY <1>3, <1>7, <2>2 DEF Legal
  <2> QED
    BY <1>7, <2>1, <2>3
<1>8. CASE line.kind \in {"blank", "stub"}
  <2>1. new = ini
    BY <1>8 DEF ParseLine
  <2> QED
    BY <1>7, <1>8, <2>1 DEF IsHead, IsItem
<1>9. CASE line.kind = "head"
  <2>1. new = ParseHead(ini, line) /\ IsHead(line)
    BY <1>9 DEF ParseLine, IsHead
  <2>2. CASE n >= MaxSections
    BY <2>1, <2>2, TooManyHeads DEF Read, ParseHead, InisOf
  <2>3. CASE ~ (n >= MaxSections)
    <3> DEFINE items == <<>>
               e == [name |-> SectionName(line), items |-> items]
    <3>1. new = [ini EXCEPT !.sections = Append(@, e)]
      BY <2>1, <2>3 DEF ParseHead
    <3>2. new.sections = Append(ini.sections, e) /\ new.bad = ini.bad
      <4> HIDE DEF e
      <4> QED
        BY <3>1 DEF InisOf
    <3>3. /\ Len(new.sections) = n + 1 /\ \A s \in 1 .. n : new.sections[s] = ini.sections[s]
          /\ new.sections[n + 1] = e
      <4> HIDE DEF e
      <4> QED
        BY <1>5, <3>2, Appended
    <3>4. Len(e.items) = 0 /\ e.name = SectionName(line)
      OBVIOUS
    <3> HIDE DEF e
    <3>5. AddsHead(new, ini, line)
      BY <3>3, <3>4 DEF AddsHead
    <3>6. \A s \in 1 .. n + 1 : Len(new.sections[s].items) <= MaxItems
      <4>1. \A s \in 1 .. n : Len(new.sections[s].items) <= MaxItems
        BY <3>3 DEF Legal
      <4>2. Len(new.sections[n + 1].items) <= MaxItems
        BY <1>4, <3>3, <3>4
      <4>3. \A s \in 1 .. n + 1 : s \in 1 .. n \/ s = n + 1
        BY <1>1
      <4> QED
        BY <4>1, <4>2, <4>3
    <3>7. Len(new.sections) <= MaxSections
      BY <1>1, <1>4, <2>3, <3>3
    <3>8. Legal(new, text, k)
      BY <1>3, <1>9, <3>3, <3>6, <3>7 DEF Legal
    <3>9. \E hq, iq : Read(new, text, k, hq, iq)
      BY <2>1, <3>5, ReadHead
    <3> QED
      BY <3>2, <3>8, <3>9
  <2> QED
    BY <2>2, <2>3
<1>10. CASE line.kind = "item"
  <2>1. new = ParseItem(ini, line) /\ ~ IsHead(line)
    BY <1>10 DEF ParseLine, IsHead
  <2>2. CASE n = 0
    <3>1. new.bad
      BY <2>1, <2>2 DEF ParseItem, InisOf
    <3>2. ASSUME NEW h \in 1 .. k, IsHead(text[h]) PROVE FALSE
      <4>1. h \in 1 .. k - 1
        BY <1>3, <2>1, <3>2
      <4> QED
        BY <2>2, <3>2, <4>1 DEF Read, HeadsAt
    <3> QED
      BY <1>10, <3>1, <3>2 DEF WellFormed
  <2>3. CASE n # 0 /\ line.key = ""
    <3>1. new = ini /\ ~ IsItem(line)
      BY <2>1, <2>3 DEF ParseItem, IsItem
    <3> QED
      BY <1>7, <1>10, <2>1, <2>3, <3>1
  <2>4. CASE n # 0 /\ line.key # "" /\ Len(ini.sections[n].items) >= MaxItems
    <3>1. new.bad /\ IsItem(line)
      BY <1>10, <2>1, <2>4 DEF ParseItem, IsItem, InisOf
    <3> QED
      BY <2>4, <3>1, TooManyItems
  <2>5. CASE n # 0 /\ line.key # "" /\ ~ (Len(ini.sections[n].items) >= MaxItems)
    <3> DEFINE e == [key |-> line.key, val |-> line.val]
               q == [ini.sections[n] EXCEPT !.items = Append(@, e)]
               z == [ini.sections EXCEPT ![n] = q]
    <3>1. n \in 1 .. n /\ IsItem(line)
      <4>1. IsItem(line)
        BY <1>10, <2>5 DEF IsItem
      <4>2. n \in Nat /\ n # 0
        BY <1>1, <2>5
      <4> HIDE DEF n
      <4> QED
        BY <4>1, <4>2
    <3>2. new = [ini EXCEPT !.sections[n].items = Append(@, e)]
      BY <2>1, <2>5 DEF ParseItem
    <3>3. new.sections = z /\ new.bad = ini.bad
      <4> HIDE DEF e
      <4> QED
        BY <3>2 DEF InisOf
    <3>4. ini.sections[n] \in SectionsOf(text)
      BY <1>5, <3>1
    <3>5. q.items = Append(ini.sections[n].items, e) /\ q.name = ini.sections[n].name
      <4> HIDE DEF e
      <4> QED
        BY <3>4 DEF SectionsOf
    <3> HIDE DEF q
    <3>6. Len(z) = n /\ z[n] = q /\ \A s \in 1 .. n : s # n => z[s] = ini.sections[s]
      BY <1>1, <1>5, <3>1
    <3> HIDE DEF z
    <3>7. /\ Len(new.sections) = n
          /\ \A s \in 1 .. n : s # n => new.sections[s] = ini.sections[s]
          /\ new.sections[n].name = ini.sections[n].name
          /\ new.sections[n].items = Append(ini.sections[n].items, e)
      <4> HIDE DEF e
      <4> QED
        BY <3>3, <3>5, <3>6
    <3> DEFINE c == Len(ini.sections[n].items)
    <3>8. /\ Len(new.sections[n].items) = c + 1 /\ new.sections[n].items[c + 1] = e
          /\ \A m \in 1 .. c : new.sections[n].items[m] = ini.sections[n].items[m]
      <4> DEFINE old == ini.sections[n].items
                 now == new.sections[n].items
      <4> HIDE DEF e
      <4>1. old \in Seq(ItemsOf(text))
        BY <1>1, <3>1
      <4>2. now = Append(old, e)
        BY <3>7
      <4>3. /\ Len(now) = Len(old) + 1 /\ now[Len(old) + 1] = e
            /\ \A m \in 1 .. Len(old) : now[m] = old[m]
        <5> HIDE DEF old, now
        <5> QED
          BY <4>1, <4>2, Appended
      <4> QED
        BY <4>3
    <3>9. e.key = line.key /\ e.val = line.val
      OBVIOUS
    <3> HIDE DEF e
    <3>10. AddsItem(new, ini, line)
      BY <3>7, <3>8, <3>9 DEF AddsItem
    <3>11. \A s \in 1 .. n : Len(new.sections[s].items) <= MaxItems
      <4>1. \A s \in 1 .. n : s # n => Len(new.sections[s].items) <= MaxItems
        BY <3>7 DEF Legal
      <4>2. Len(new.sections[n].items) <= MaxItems
        <5>1. c \in Nat /\ ~ (c >= MaxItems) /\ Len(new.sections[n].items) = c + 1
          BY <1>1, <2>5, <3>1, <3>8
        <5> HIDE DEF c, n
        <5> QED
          BY <1>4, <5>1
      <4> QED
        BY <4>1, <4>2
    <3>12. hp[n] \in 1 .. k /\ IsHead(text[hp[n]])
      BY <1>1, <3>1 DEF Read, HeadsAt
    <3>13. Legal(new, text, k)
      BY <1>3, <1>10, <3>7, <3>11, <3>12 DEF Legal
    <3>14. \E hq, iq : Read(new, text, k, hq, iq)
      BY <2>5, <3>1, <3>10, ReadItem
    <3> QED
      BY <3>3, <3>13, <3>14
  <2> QED
    BY <2>2, <2>3, <2>4, <2>5
<1> QED
  BY <1>2, <1>6, <1>8, <1>9, <1>10 DEF IsLine

-----------------------------------------------------------------------------
(* The whole text.                                                         *)

\* The lines read so far, or one of them is out of place.
Meant(ini, text, k) ==
  IF ini.bad THEN ~ WellFormed(text)
  ELSE Legal(ini, text, k) /\ \E hp, ip : Read(ini, text, k, hp, ip)

LEMMA MeantFirst ==
  ASSUME NEW text, IsText(text)
  PROVE  Meant(NoText, text, 0)
<1>1. ~ NoText.bad /\ Len(NoText.sections) = 0
  BY DEF NoText
<1>2. Legal(NoText, text, 0)
  BY <1>1, IniAssumption DEF Legal
<1>3. \A hp, ip : Read(NoText, text, 0, hp, ip)
  BY <1>1 DEF Read, HeadsAt, ItemsAt, ItemsFound
<1> QED
  BY <1>1, <1>2, <1>3 DEF Meant

LEMMA BadStays ==
  ASSUME NEW text, IsText(text), NEW ini \in InisOf(text), NEW k \in DOMAIN text, ini.bad
  PROVE  ParseLine(ini, text[k]).bad
<1>1. IsLine(text[k])
  BY DEF IsText
<1>2. [ini EXCEPT !.bad = TRUE].bad
  BY DEF InisOf
<1>3. \A S : [ini EXCEPT !.sections = S].bad
  BY DEF InisOf
<1>4. ParseHead(ini, text[k]).bad
  BY <1>2, <1>3 DEF ParseHead
<1>5. ParseItem(ini, text[k]).bad
  <2> DEFINE e == [key |-> text[k].key, val |-> text[k].val]
             last == Len(ini.sections)
  <2>1. [ini EXCEPT !.sections[last].items = Append(@, e)].bad
    <3> HIDE DEF e, last
    <3> QED
      BY DEF InisOf
  <2> QED
    BY <1>2, <2>1 DEF ParseItem
<1> QED
  BY <1>1, <1>2, <1>4, <1>5 DEF ParseLine, IsLine

LEMMA ParseMeant ==
  ASSUME NEW text, IsText(text)
  PROVE  Meant(Parse(text), text, Len(text))
<1>1. Len(text) \in Nat /\ DOMAIN text = 1 .. Len(text)
  BY DEF IsText
<1>2. PICK p : /\ Parse(text) = p[Len(text)] /\ p[0] = NoText
               /\ \A k \in 1 .. Len(text) : p[k] = ParseLine(p[k - 1], text[k])
  BY <1>1, ParseRun
<1> DEFINE T == {k \in 0 .. Len(text) : p[k] \in InisOf(text) /\ Meant(p[k], text, k)}
<1>3. 0 \in T
  <2>1. NoText \in InisOf(text)
    <3>1. <<>> \in Seq(SectionsOf(text))
      OBVIOUS
    <3> QED
      BY <3>1 DEF NoText, InisOf
  <2> QED
    BY <1>1, <1>2, <2>1, MeantFirst
<1>4. ASSUME NEW k \in 1 .. Len(text), k - 1 \in T PROVE k \in T
  <2>1. p[k - 1] \in InisOf(text) /\ Meant(p[k - 1], text, k - 1)
    BY <1>4
  <2>2. p[k] = ParseLine(p[k - 1], text[k]) /\ p[k] \in InisOf(text)
    BY <1>1, <1>2, <2>1, ParseLineIn
  <2>3. Meant(p[k], text, k)
    <3>1. CASE p[k - 1].bad
      BY <1>1, <2>1, <2>2, <3>1, BadStays DEF Meant
    <3>2. CASE ~ p[k - 1].bad
      <4>1. Legal(p[k - 1], text, k - 1)
        BY <2>1, <3>2 DEF Meant
      <4>2. PICK hp, ip : Read(p[k - 1], text, k - 1, hp, ip)
        BY <2>1, <3>2 DEF Meant
      <4> QED
        BY <2>1, <2>2, <3>2, <4>1, <4>2, ParseStep DEF Meant
    <3> QED
      BY <3>1, <3>2
  <2>4. k \in 0 .. Len(text)
    BY <1>1
  <2> QED
    BY <2>2, <2>3, <2>4
<1>5. Len(text) \in T
  <2> HIDE DEF T
  <2> QED
    BY <1>1, <1>3, <1>4, Induction
<1> QED
  BY <1>2, <1>5

\* A text that can be parsed is well formed.
LEMMA LegalIsWellFormed ==
  ASSUME NEW text, IsText(text), NEW ini \in InisOf(text), NEW hp, NEW ip,
         Read(ini, text, Len(text), hp, ip), Legal(ini, text, Len(text))
  PROVE  WellFormed(text)
<1> DEFINE N == Len(text)
           n == Len(ini.sections)
           H == {i \in 1 .. N : IsHead(text[i])}
<1>1. N \in Nat /\ n \in Nat /\ \A s \in 1 .. n : Len(ini.sections[s].items) \in Nat
  BY LinesAt
<1>2. Cardinality(H) <= MaxSections
  <2>1. \A h \in H : \E s \in 1 .. n : hp[s] = h
    BY DEF Read, HeadsAt
  <2>2. Cardinality(H) \in Nat /\ Cardinality(H) <= n
    <3> HIDE DEF H, n
    <3> QED
      BY <1>1, <2>1, AtMostAsMany
  <2>3. n <= MaxSections
    BY DEF Legal
  <2> HIDE DEF H, n
  <2> QED
    BY <1>1, <2>2, <2>3, IniAssumption
<1>3. ASSUME NEW h \in 1 .. N, IsHead(text[h])
      PROVE  Cardinality({j \in h .. NextHead(text, h) - 1 : IsItem(text[j])}) <= MaxItems
  <2> DEFINE S == {j \in h .. NextHead(text, h) - 1 : IsItem(text[j])}
  <2>1. PICK s \in 1 .. n : hp[s] = h
    BY <1>3 DEF Read, HeadsAt
  <2> DEFINE c == Len(ini.sections[s].items)
             f == ip[s]
  <2>2. ASSUME NEW i \in S PROVE \E m \in 1 .. c : f[m] = i
    <3>1. i \in h + 1 .. NextHead(text, h) - 1 /\ IsItem(text[i]) /\ i \in Int
      <4>1. i # h
        BY <1>3 DEF IsHead, IsItem
      <4> QED
        BY <1>1, <4>1, NextHeadIs
    <3>2. i \in h + 1 .. N /\ NoHead(text, h, i)
      BY <3>1, UntilNextHead
    <3>3. i \in 1 .. N
      BY <1>1, <3>2
    <3>4. PICK t \in 1 .. n : \E m \in 1 .. Len(ini.sections[t].items) : ip[t][m] = i
      BY <3>1, <3>3 DEF Read, ItemsFound
    <3>5. PICK m \in 1 .. Len(ini.sections[t].items) : ip[t][m] = i
      BY <3>4
    <3>6. i \in hp[t] + 1 .. N /\ NoHead(text, hp[t], i)
      BY <3>5 DEF Read, ItemsAt
    <3>7. hp[t] \in 1 .. N /\ IsHead(text[hp[t]])
      BY DEF Read, HeadsAt
    <3>8. hp[t] = h
      BY <1>1, <1>3, <3>2, <3>6, <3>7 DEF NoHead
    <3>9. t = s
      <4>1. (s < t => hp[s] < hp[t]) /\ (t < s => hp[t] < hp[s])
        BY DEF Read, HeadsAt
      <4> QED
        BY <1>1, <2>1, <3>8, <4>1
    <3> QED
      BY <3>5, <3>9
  <2>3. Cardinality(S) \in Nat /\ Cardinality(S) <= c
    <3>1. c \in Nat
      BY <1>1
    <3> HIDE DEF S, c, f
    <3> QED
      BY <2>2, <3>1, AtMostAsMany
  <2>4. c <= MaxItems /\ c \in Nat
    BY <1>1 DEF Legal
  <2> HIDE DEF S, c
  <2>5. Cardinality(S) <= MaxItems
    BY <2>3, <2>4, IniAssumption
  <2> QED
    BY <2>5 DEF S
<1> QED
  BY <1>2, <1>3 DEF WellFormed, Legal

\* gr_ini_open2 takes the texts that are well formed, and what is found in one is what it says.
THEOREM ParseIsRight ==
  ASSUME NEW text, IsText(text)
  PROVE  /\ Parse(text).bad <=> ~ WellFormed(text)
         /\ ~ Parse(text).bad => \A name, key :
              Find(Parse(text), name, key) = Written(text, name, key)
<1>1. Parse(text) \in InisOf(text) /\ Meant(Parse(text), text, Len(text))
  BY ParseIn, ParseMeant
<1>2. CASE Parse(text).bad
  BY <1>1, <1>2 DEF Meant
<1>3. CASE ~ Parse(text).bad
  <2>1. Legal(Parse(text), text, Len(text))
    BY <1>1, <1>3 DEF Meant
  <2>2. PICK hp, ip : Read(Parse(text), text, Len(text), hp, ip)
    BY <1>1, <1>3 DEF Meant
  <2>3. WellFormed(text)
    BY <1>1, <2>1, <2>2, LegalIsWellFormed
  <2>4. \A name, key : Find(Parse(text), name, key) = Written(text, name, key)
    BY <1>1, <2>2, FindIsWritten
  <2> QED
    BY <1>3, <2>3, <2>4
<1> QED
  BY <1>2, <1>3

-----------------------------------------------------------------------------
(* Where the ports stand.                                                  *)

\* Of the first k addresses those of one protocol.
Chosen(text, p, k) == {j \in 0 .. k - 1 : Address(text, j).proto = p}

Many(text, p, k) == Cardinality(Chosen(text, p, k))

LEMMA ManyNat ==
  ASSUME NEW text, NEW p, NEW k \in Nat
  PROVE  IsFiniteSet(Chosen(text, p, k)) /\ Many(text, p, k) \in Nat
<1>1. 0 \in Int /\ k - 1 \in Int
  OBVIOUS
<1>2. IsFiniteSet(0 .. k - 1)
  BY <1>1, FS_Interval
<1>3. Chosen(text, p, k) \in SUBSET (0 .. k - 1)
  BY DEF Chosen
<1> QED
  BY <1>2, <1>3, FS_Subset, FS_CardinalityType DEF Many

LEMMA ManyOfNone ==
  ASSUME NEW text, NEW p
  PROVE  Chosen(text, p, 0) = {} /\ Many(text, p, 0) = 0
<1>1. Chosen(text, p, 0) = {}
  BY DEF Chosen
<1> QED
  BY <1>1, FS_EmptySet DEF Many

LEMMA OneMore ==
  ASSUME NEW text, NEW p, NEW j \in Nat
  PROVE  /\ Cardinality(Chosen(text, p, j) \cup {j}) = Many(text, p, j) + 1
         /\ IsFiniteSet(Chosen(text, p, j) \cup {j})
<1>1. j \notin Chosen(text, p, j)
  BY DEF Chosen
<1> QED
  BY <1>1, ManyNat, FS_AddElement DEF Many

LEMMA ManyNext ==
  ASSUME NEW text, NEW p, NEW k \in Nat
  PROVE  Many(text, p, k + 1) = IF Address(text, k).proto = p THEN Many(text, p, k) + 1
                                ELSE Many(text, p, k)
<1>1. \A i : i \in 0 .. (k + 1) - 1 <=> i = k \/ i \in 0 .. k - 1
  OBVIOUS
<1>2. CASE Address(text, k).proto = p
  <2>1. Chosen(text, p, k + 1) = Chosen(text, p, k) \cup {k}
    BY <1>1, <1>2 DEF Chosen
  <2> QED
    BY <1>2, <2>1, OneMore DEF Many
<1>3. CASE Address(text, k).proto # p
  <2>1. Chosen(text, p, k + 1) = Chosen(text, p, k)
    BY <1>1, <1>3 DEF Chosen
  <2> QED
    BY <1>3, <2>1 DEF Many
<1> QED
  BY <1>2, <1>3

LEMMA ManyBefore ==
  ASSUME NEW text, NEW p, NEW k \in Nat, NEW j \in Chosen(text, p, k)
  PROVE  j \in Nat /\ Many(text, p, j) + 1 <= Many(text, p, k)
<1>1. j \in Nat
  BY DEF Chosen
<1>2. Chosen(text, p, j) \cup {j} \in SUBSET Chosen(text, p, k)
  BY DEF Chosen
<1>3. Cardinality(Chosen(text, p, j) \cup {j}) <= Many(text, p, k)
  BY <1>2, ManyNat, FS_Subset DEF Many
<1> QED
  BY <1>1, <1>3, OneMore

AllTcp(l) == \A x \in 1 .. Len(l.ports) : l.ports[x].tcp

PortOf(p, v) == [tcp |-> p = "tcp", port |-> v.n]

\* An entry of the pass's protocol is added if it can be bound and there is room.
LEMMA EntryIs ==
  ASSUME NEW l \in Lists, NEW p \in {"tcp", "udp"}, NEW v, v = Absent \/ IsValue(v),
         NEW m, m = ListenEntry(l, p, v)
  PROVE  /\ m.r = 0 => /\ l.r = 0 /\ v.is = "addr" /\ v.proto \in {"tcp", "udp"}
                       /\ v.proto # p => m = l
                       /\ v.proto = p => /\ Bindable(v)
                                         /\ m.ports = Append(l.ports, PortOf(p, v))
         /\ /\ l.r = 0 /\ Bindable(v)
            /\ v.proto = p => Len(l.ports) < PortMax /\ (p = "tcp" => AllTcp(l))
            => m.r = 0
<1> DEFINE e == PortOf(p, v)
           bad(c) == [l EXCEPT !.r = c]
           more == [l EXCEPT !.ports = Append(@, e)]
<1>1. l.ports \in Seq(Ports) /\ l.r \in Int /\ Len(l.ports) \in Nat /\ PortMax \in Nat
  BY ConfigAssumption DEF Lists
<1>2. \A c \in {-1, -2, -3, -4, -5, -6} : bad(c).r # 0
  BY DEF Lists
<1>3. more.r = l.r /\ more.ports = Append(l.ports, e)
  <2> HIDE DEF e
  <2> QED
    BY DEF Lists
<1>4. v.is = "addr" => v.n \in Int /\ v.proto \in {"tcp", "udp", "other"}
                         /\ v.fault \in {"none", "colon", "ip", "digit"}
  BY DEF IsValue, Absent
<1>5. v.is = "addr" => (v.n \in Port <=> ~ (v.n <= 0 \/ v.n > LastPort))
  <2>1. LastPort \in Int
    BY SMT DEF LastPort
  <2> QED
    BY <1>4, <2>1 DEF Port
<1>6. Absent.is # "addr"
  BY DEF Absent
<1> DEFINE add == AddPort(l, p = "tcp", v.n)
<1>7. add \in {bad(-6), more}
  BY DEF AddPort, PortOf
<1>8. Len(l.ports) < PortMax /\ (p = "tcp" => AllTcp(l)) => add = more
  <2> SUFFICES ASSUME Len(l.ports) < PortMax, p = "tcp" => AllTcp(l) PROVE add = more
    OBVIOUS
  <2>1. ~ (Len(l.ports) >= PortMax)
    BY <1>1
  <2>2. ~ (p = "tcp" /\ l.ports # <<>> /\ ~ l.ports[Len(l.ports)].tcp)
    <3>1. l.ports # <<>> => Len(l.ports) \in 1 .. Len(l.ports)
      BY <1>1
    <3> QED
      BY <3>1 DEF AllTcp
  <2> QED
    BY <2>1, <2>2 DEF AddPort, PortOf
<1> HIDE DEF add, more, bad, e
<1>9. CASE l.r # 0
  BY <1>9 DEF ListenEntry
<1>10. CASE l.r = 0 /\ (v.is # "addr" \/ v.proto = "other")
  <2>1. m = bad(-1)
    BY <1>10 DEF ListenEntry, bad
  <2> QED
    BY <1>2, <1>10, <2>1 DEF Bindable
<1>11. CASE l.r = 0 /\ v.is = "addr" /\ v.proto # "other" /\ v.proto # p
  <2>1. m = l
    BY <1>11 DEF ListenEntry
  <2> QED
    BY <1>4, <1>11, <2>1
<1>12. CASE l.r = 0 /\ v.is = "addr" /\ v.proto # "other" /\ v.proto = p
  <2>1. CASE v.fault # "none"
    <3>1. m \in {bad(-2), bad(-3), bad(-4)}
      BY <1>4, <1>12, <2>1 DEF ListenEntry, bad
    <3> QED
      BY <1>2, <2>1, <3>1 DEF Bindable
  <2>2. CASE v.fault = "none" /\ v.n \notin Port
    <3>1. m = bad(-5)
      BY <1>5, <1>12, <2>2 DEF ListenEntry, bad
    <3> QED
      BY <1>2, <2>2, <3>1 DEF Bindable
  <2>3. CASE v.fault = "none" /\ v.n \in Port
    <3>1. m = add
      BY <1>5, <1>12, <2>3 DEF ListenEntry, add
    <3>2. Bindable(v)
      BY <1>12, <2>3 DEF Bindable
    <3> QED
      BY <1>2, <1>3, <1>7, <1>8, <1>12, <3>1, <3>2 DEF e
  <2> QED
    BY <2>1, <2>2, <2>3
<1> QED
  BY <1>4, <1>9, <1>10, <1>11, <1>12

\* What a pass makes of l: after k entries each one of its protocol stands behind the ones before.
After(text, l, p, m, k) ==
  /\ Len(m.ports) = Len(l.ports) + Many(text, p, k)
  /\ \A x \in 1 .. Len(l.ports) : m.ports[x] = l.ports[x]
  /\ \A j \in 0 .. k - 1 : /\ Address(text, j).is = "addr"
                           /\ Address(text, j).proto \in {"tcp", "udp"}
  /\ \A j \in Chosen(text, p, k) :
       /\ Bindable(Address(text, j))
       /\ m.ports[Len(l.ports) + 1 + Many(text, p, j)] = PortOf(p, Address(text, j))
  /\ p = "tcp" /\ AllTcp(l) => AllTcp(m)

LEMMA AfterStep ==
  ASSUME NEW text, NEW l \in Lists, NEW p \in {"tcp", "udp"}, NEW m \in Lists, NEW k \in Nat,
         After(text, l, p, m, k), NEW v, v = Address(text, k),
         v = Absent \/ IsValue(v), NEW new, new = ListenEntry(m, p, v), new.r = 0
  PROVE  After(text, l, p, new, k + 1)
<1> DEFINE b == Len(l.ports)
           c(j) == Many(text, p, j)
<1>1. /\ b \in Nat /\ l.ports \in Seq(Ports)
      /\ m.ports \in Seq(Ports) /\ Len(m.ports) \in Nat
  BY DEF Lists
<1>2. c(k) \in Nat /\ c(k + 1) \in Nat
  BY ManyNat
<1>3. Len(m.ports) = b + c(k)
  BY DEF After
<1>4. /\ v.is = "addr" /\ v.proto \in {"tcp", "udp"}
      /\ v.proto # p => new = m
      /\ v.proto = p => Bindable(v) /\ new.ports = Append(m.ports, PortOf(p, v))
  BY EntryIs
<1>5. \A j : j \in 0 .. (k + 1) - 1 <=> j = k \/ j \in 0 .. k - 1
  OBVIOUS
<1>6. \A j \in 0 .. (k + 1) - 1 :
        Address(text, j).is = "addr" /\ Address(text, j).proto \in {"tcp", "udp"}
  BY <1>4, <1>5 DEF After
<1>7. CASE v.proto # p
  <2>1. Chosen(text, p, k + 1) = Chosen(text, p, k)
    BY <1>5, <1>7 DEF Chosen
  <2>2. c(k + 1) = c(k)
    BY <2>1 DEF Many
  <2> HIDE DEF c
  <2> QED
    BY <1>4, <1>6, <1>7, <2>1, <2>2 DEF After, c
<1>8. CASE v.proto = p
  <2>1. c(k + 1) = c(k) + 1
    BY <1>8, ManyNext
  <2>2. /\ Len(new.ports) = Len(m.ports) + 1
        /\ new.ports[Len(m.ports) + 1] = PortOf(p, v)
        /\ \A x \in 1 .. Len(m.ports) : new.ports[x] = m.ports[x]
    <3> HIDE DEF c, b
    <3> QED
      BY <1>1, <1>4, <1>8, Appended
  <2>3. \A x \in 1 .. b : x \in 1 .. Len(m.ports)
    <3> HIDE DEF c, b
    <3> QED
      BY <1>1, <1>2, <1>3
  <2>4. Len(new.ports) = b + c(k + 1)
    <3> HIDE DEF c, b
    <3> QED
      BY <1>1, <1>2, <1>3, <2>1, <2>2
  <2>5. \A x \in 1 .. b : new.ports[x] = l.ports[x]
    BY <2>2, <2>3 DEF After
  <2>6. ASSUME NEW j \in Chosen(text, p, k + 1)
        PROVE  Bindable(Address(text, j)) /\ new.ports[b + 1 + c(j)] = PortOf(p, Address(text, j))
    <3>1. j \in 0 .. (k + 1) - 1 /\ Address(text, j).proto = p
      BY DEF Chosen
    <3>2. CASE j = k
      <4>1. b + 1 + c(j) = Len(m.ports) + 1
        <5> HIDE DEF c, b
        <5> QED
          BY <1>1, <1>2, <1>3, <3>2
      <4>2. Address(text, j) = v
        BY <3>2
      <4> QED
        BY <1>4, <1>8, <2>2, <4>1, <4>2
    <3>3. CASE j \in 0 .. k - 1
      <4>1. j \in Chosen(text, p, k)
        BY <3>1, <3>3 DEF Chosen
      <4>2. j \in Nat /\ c(j) + 1 <= c(k)
        BY <4>1, ManyBefore
      <4>3. c(j) \in Nat
        BY <4>2, ManyNat
      <4>4. b + 1 + c(j) \in 1 .. Len(m.ports)
        <5> HIDE DEF c, b
        <5> QED
          BY <1>1, <1>2, <1>3, <4>2, <4>3
      <4>5. Bindable(Address(text, j)) /\ m.ports[b + 1 + c(j)] = PortOf(p, Address(text, j))
        BY <4>1 DEF After
      <4> HIDE DEF c, b
      <4> QED
        BY <2>2, <4>4, <4>5
    <3> QED
      BY <1>5, <3>1, <3>2, <3>3
  <2>7. p = "tcp" /\ AllTcp(l) => AllTcp(new)
    <3> SUFFICES ASSUME p = "tcp", AllTcp(l), NEW x \in 1 .. Len(new.ports)
                 PROVE  new.ports[x].tcp
      BY DEF AllTcp
    <3>1. AllTcp(m)
      BY DEF After
    <3>2. PortOf(p, v).tcp
      BY DEF PortOf
    <3>3. x \in 1 .. Len(m.ports) \/ x = Len(m.ports) + 1
      BY <1>1, <2>2
    <3> QED
      BY <2>2, <3>1, <3>2, <3>3 DEF AllTcp
  <2> QED
    BY <1>6, <2>4, <2>5, <2>6, <2>7 DEF After
<1> QED
  BY <1>7, <1>8

\* A pass over n entries takes l to m, and is stopped neither by them nor for want of room.
Passes(text, n, l, p, m) ==
  /\ m \in Lists
  /\ m.r = 0 => l.r = 0 /\ After(text, l, p, m, n)
  /\ /\ l.r = 0 /\ \A i \in 0 .. n - 1 : Bindable(Address(text, i))
     /\ Len(l.ports) + Many(text, p, n) <= PortMax
     /\ p = "tcp" => AllTcp(l)
     => m.r = 0

LEMMA PassIs ==
  ASSUME NEW text, NEW n \in Nat, NEW list, DOMAIN list = 1 .. n,
         \A i \in 1 .. n : list[i] = Address(text, i - 1),
         \A i \in 0 .. n - 1 : Address(text, i) = Absent \/ IsValue(Address(text, i)),
         NEW l \in Lists, NEW p \in {"tcp", "udp"}
  PROVE  Passes(text, n, l, p, ListenPass(l, p, list))
<1>1. PICK q : /\ ListenPass(l, p, list) = q[n] /\ q[0] = l
               /\ \A k \in 1 .. n : q[k] = ListenEntry(q[k - 1], p, list[k])
  BY PassRun
<1> DEFINE Fine == /\ l.r = 0 /\ \A i \in 0 .. n - 1 : Bindable(Address(text, i))
                   /\ Len(l.ports) + Many(text, p, n) <= PortMax
                   /\ p = "tcp" => AllTcp(l)
           T == {k \in 0 .. n : /\ q[k] \in Lists
                                /\ q[k].r = 0 => l.r = 0 /\ After(text, l, p, q[k], k)
                                /\ Fine => q[k].r = 0}
<1>2. 0 \in T
  <2>1. After(text, l, p, l, 0)
    <3>1. Many(text, p, 0) = 0 /\ Chosen(text, p, 0) = {} /\ Len(l.ports) \in Nat
      BY ManyOfNone DEF Lists
    <3> QED
      BY <3>1 DEF After
  <2> QED
    BY <1>1, <2>1
<1>3. ASSUME NEW k \in 1 .. n, k - 1 \in T PROVE k \in T
  <2>1. /\ q[k - 1] \in Lists
        /\ q[k - 1].r = 0 => l.r = 0 /\ After(text, l, p, q[k - 1], k - 1)
        /\ Fine => q[k - 1].r = 0
    BY <1>3
  <2> DEFINE v == Address(text, k - 1)
  <2>2. /\ k \in 0 .. n /\ k \in Nat \ {0} /\ k - 1 \in 0 .. n - 1 /\ k - 1 \in Nat
        /\ list[k] = v /\ (v = Absent \/ IsValue(v)) /\ q[k] = ListenEntry(q[k - 1], p, v)
    BY <1>1
  <2> HIDE DEF v, T
  <2>3. q[k] \in Lists
    BY <2>1, <2>2, ListenEntryIn
  <2>4. q[k].r = 0 => q[k - 1].r = 0
    BY <2>1, <2>2, EntryIs
  <2>5. q[k].r = 0 => After(text, l, p, q[k], k)
    <3>1. (k - 1) + 1 = k
      OBVIOUS
    <3>2. q[k].r = 0 => After(text, l, p, q[k], (k - 1) + 1)
      BY <2>1, <2>2, <2>4, AfterStep DEF v
    <3> QED
      BY <3>1, <3>2
  <2>6. ASSUME Fine PROVE q[k].r = 0
    <3>1. q[k - 1].r = 0 /\ After(text, l, p, q[k - 1], k - 1) /\ Bindable(v)
      BY <2>1, <2>2, <2>6 DEF v
    <3>2. v.proto = p => Len(q[k - 1].ports) < PortMax
      <4>1. v.proto = p => Many(text, p, k - 1) + 1 <= Many(text, p, n)
        <5> SUFFICES ASSUME v.proto = p PROVE Many(text, p, k - 1) + 1 <= Many(text, p, n)
          OBVIOUS
        <5>1. k - 1 \in Chosen(text, p, n)
          BY <2>2 DEF Chosen, v
        <5> QED
          BY <5>1, ManyBefore
      <4>2. Many(text, p, k - 1) \in Nat /\ Many(text, p, n) \in Nat
        BY <2>2, ManyNat
      <4>4. Len(l.ports) \in Nat /\ PortMax \in Nat
        BY ConfigAssumption DEF Lists
      <4>3. Len(q[k - 1].ports) = Len(l.ports) + Many(text, p, k - 1)
        BY <3>1 DEF After
      <4> QED
        BY <2>6, <4>1, <4>2, <4>3, <4>4
    <3>3. p = "tcp" => AllTcp(q[k - 1])
      BY <2>6, <3>1 DEF After
    <3> QED
      BY <2>1, <2>2, <3>1, <3>2, <3>3, EntryIs
  <2> QED
    BY <2>1, <2>2, <2>3, <2>4, <2>5, <2>6 DEF T
<1>4. n \in T
  <2> HIDE DEF T
  <2> QED
    BY <1>2, <1>3, Induction
<1> QED
  BY <1>1, <1>4 DEF Passes

-----------------------------------------------------------------------------
(* The list of addresses, and what is made of it.                          *)

\* The list that is gone over holds the addresses of the text up to the first gap.
LEMMA ListIs ==
  ASSUME NEW text, IsText(text), ~ Parse(text).bad
  PROVE  /\ \A i : Address(text, i) = Absent \/ IsValue(Address(text, i))
         /\ \E n \in 0 .. PortMax :
              /\ Numbers(text) = 0 .. n - 1
              /\ DOMAIN Listed(Parse(text)) = 1 .. n
              /\ \A i \in 1 .. n : Listed(Parse(text))[i] = Address(text, i - 1)
<1> DEFINE ini == Parse(text)
           gap == {i \in 0 .. PortMax - 1 : Missing(Address(text, i))}
           n   == IF gap = {} THEN PortMax ELSE Min(gap)
<1>1. \A i : Find(ini, "listen", ToString(i)) = Address(text, i)
  BY ParseIsRight DEF Address
<1>2. ini \in InisOf(text) /\ PortMax \in Nat
  BY ParseIn, ConfigAssumption
<1>3. \A i : Address(text, i) = Absent \/ IsValue(Address(text, i))
  BY <1>1, <1>2, FindIn
<1> HIDE DEF ini
<1>4. \A i : Entry(ini, i) = Address(text, i)
  BY <1>1 DEF Entry, GetString
<1>5. Listed(ini) = [i \in 1 .. n |-> Address(text, i - 1)]
  <2>1. {i \in 0 .. PortMax - 1 : Missing(Entry(ini, i))} = gap
    BY <1>4
  <2> HIDE DEF gap
  <2>2. Listed(ini) = [i \in 1 .. n |-> Entry(ini, i - 1)]
    BY <2>1 DEF Listed
  <2> HIDE DEF n
  <2> QED
    BY <1>4, <2>2
<1>6. gap \subseteq Nat
  BY <1>2
<1>7. /\ n \in 0 .. PortMax
      /\ \A i \in 0 .. n - 1 : i \notin gap
      /\ n < PortMax => n \in gap
  <2>1. CASE gap = {}
    BY <1>2, <2>1
  <2>2. CASE gap # {}
    <3>1. n = Min(gap)
      BY <2>2
    <3>2. Min(gap) \in gap /\ \A x \in gap : Min(gap) <= x
      <4> HIDE DEF gap
      <4> QED
        BY <1>6, <2>2, MinLeast
    <3>3. n \in gap /\ \A x \in gap : n <= x
      BY <3>1, <3>2
    <3>4. n \in 0 .. PortMax - 1
      BY <3>3
    <3> HIDE DEF n, gap
    <3> QED
      BY <1>2, <1>6, <3>3, <3>4
  <2> QED
    BY <2>1, <2>2
<1>8. Numbers(text) = {i \in 0 .. PortMax - 1 : \A j \in 0 .. i : ~ Missing(Address(text, j))}
  BY DEF Numbers, Address
<1> HIDE DEF n
<1>9. ASSUME NEW i \in 0 .. n - 1 PROVE i \in Numbers(text)
  <2>1. i \in 0 .. PortMax - 1 /\ \A j \in 0 .. i : j \in 0 .. n - 1 /\ j \in 0 .. PortMax - 1
    BY <1>2, <1>7
  <2> QED
    BY <1>7, <1>8, <2>1
<1>10. ASSUME NEW i \in Numbers(text) PROVE i \in 0 .. n - 1
  <2>1. i \in 0 .. PortMax - 1 /\ \A j \in 0 .. i : j \notin gap
    BY <1>2, <1>8
  <2> HIDE DEF gap
  <2> QED
    BY <1>2, <1>7, <2>1
<1>11. Numbers(text) = 0 .. n - 1
  BY <1>9, <1>10
<1> HIDE DEF gap
<1> QED
  BY <1>3, <1>5, <1>7, <1>11 DEF ini

LEMMA Together ==
  ASSUME NEW text, NEW n \in Nat, NEW k \in Nat
  PROVE  Cardinality(Chosen(text, "tcp", n) \cup Chosen(text, "udp", k))
           = Many(text, "tcp", n) + Many(text, "udp", k)
<1> DEFINE S == Chosen(text, "tcp", n)
           T == Chosen(text, "udp", k)
<1>1. S \cap T = {}
  BY DEF Chosen
<1>2. IsFiniteSet(S) /\ IsFiniteSet(T) /\ Cardinality(S) \in Nat /\ Cardinality(T) \in Nat
  BY ManyNat, FS_CardinalityType
<1> HIDE DEF S, T
<1>3. Cardinality(S \cup T) = Cardinality(S) + Cardinality(T) - Cardinality(S \cap T)
  BY <1>2, FS_Union
<1>4. Cardinality(S \cap T) = 0
  BY <1>1, FS_EmptySet
<1>5. Cardinality(S \cup T) = Cardinality(S) + Cardinality(T)
  BY <1>2, <1>3, <1>4
<1> QED
  BY <1>5 DEF S, T, Many

\* TCP addresses are behind the TCP addresses before them.
LEMMA PlaceOfTcp ==
  ASSUME NEW text, NEW n \in Nat, Numbers(text) = 0 .. n - 1,
         NEW i \in 0 .. n - 1, Address(text, i).proto = "tcp"
  PROVE  Place(text, i) = 1 + Many(text, "tcp", i)
<1>1. \A j : j \in 0 .. i - 1 <=> j \in 0 .. n - 1 /\ j < i
  OBVIOUS
<1>2. \A j : Before(text, j, i) <=> j < i /\ Address(text, j).proto = "tcp"
  BY DEF Before, IsTcp
<1>3. {j \in Numbers(text) : Before(text, j, i)} = Chosen(text, "tcp", i)
  BY <1>1, <1>2 DEF Chosen
<1> QED
  BY <1>3 DEF Place, Many

\* UDP addresses are behind all TCP addresses, and behind the UDP addresses before them.
LEMMA PlaceOfUdp ==
  ASSUME NEW text, NEW n \in Nat, Numbers(text) = 0 .. n - 1,
         \A j \in 0 .. n - 1 : Address(text, j).proto \in {"tcp", "udp"},
         NEW i \in 0 .. n - 1, Address(text, i).proto = "udp"
  PROVE  Place(text, i) = 1 + (Many(text, "tcp", n) + Many(text, "udp", i))
<1>1. \A j : j \in 0 .. i - 1 <=> j \in 0 .. n - 1 /\ j < i
  OBVIOUS
<1>2. \A j : Before(text, j, i) <=> Address(text, j).proto = "tcp" \/ j < i
  BY DEF Before, IsTcp
<1>3. {j \in Numbers(text) : Before(text, j, i)}
        = Chosen(text, "tcp", n) \cup Chosen(text, "udp", i)
  BY <1>1, <1>2 DEF Chosen
<1>4. i \in Nat
  OBVIOUS
<1> QED
  BY <1>3, <1>4, Together DEF Place

LEMMA LoadListenIs ==
  ASSUME NEW text, IsText(text), ~ Parse(text).bad
  PROVE  LET l == LoadListen(Parse(text)) IN
         /\ l.r = 0 => Listens(text, l.ports)
         /\ Numbers(text) # {} /\ (\A i \in Numbers(text) : Bindable(Address(text, i))) => l.r = 0
<1> DEFINE none == [ports |-> <<>>, r |-> 0]
           list == Listed(Parse(text))
           a == ListenPass(none, "tcp", list)
           b == ListenPass(a, "udp", list)
           l == LoadListen(Parse(text))
<1>1. PICK n \in 0 .. PortMax : /\ Numbers(text) = 0 .. n - 1
                                /\ DOMAIN list = 1 .. n
                                /\ \A i \in 1 .. n : list[i] = Address(text, i - 1)
  BY ListIs
<1>2. n \in Nat /\ PortMax \in Nat /\ n <= PortMax
  BY ConfigAssumption
<1>3. \A i \in 0 .. n - 1 : Address(text, i) = Absent \/ IsValue(Address(text, i))
  BY ListIs
<1>4. none \in Lists /\ none.r = 0 /\ Len(none.ports) = 0 /\ AllTcp(none)
  <2>1. <<>> \in Seq(Ports)
    OBVIOUS
  <2> QED
    BY <2>1 DEF Lists, AllTcp
<1>5. l = IF b.r = 0 /\ b.ports = <<>> THEN [b EXCEPT !.r = -7] ELSE b
  BY DEF LoadListen
<1>6. a = ListenPass(none, "tcp", list) /\ b = ListenPass(a, "udp", list)
  OBVIOUS
<1> HIDE DEF none, list, l, a, b
<1>7. /\ a \in Lists
      /\ a.r = 0 => After(text, none, "tcp", a, n)
      /\ (\A i \in 0 .. n - 1 : Bindable(Address(text, i))) /\ Many(text, "tcp", n) <= PortMax
           => a.r = 0
  <2>1. /\ a \in Lists
        /\ a.r = 0 => none.r = 0 /\ After(text, none, "tcp", a, n)
        /\ /\ none.r = 0 /\ \A i \in 0 .. n - 1 : Bindable(Address(text, i))
           /\ Len(none.ports) + Many(text, "tcp", n) <= PortMax
           /\ "tcp" = "tcp" => AllTcp(none)
           => a.r = 0
    <3>1. "tcp" \in {"tcp", "udp"}
      OBVIOUS
    <3>2. Passes(text, n, none, "tcp", ListenPass(none, "tcp", list))
      BY <1>1, <1>2, <1>3, <1>4, <3>1, PassIs, Zenon
    <3> QED
      BY <1>6, <3>2 DEF Passes
  <2>2. Len(none.ports) + Many(text, "tcp", n) = Many(text, "tcp", n)
    BY <1>2, <1>4, ManyNat
  <2> QED
    BY <1>4, <2>1, <2>2
<1>8. /\ b \in Lists
      /\ b.r = 0 => a.r = 0 /\ After(text, a, "udp", b, n)
      /\ /\ a.r = 0 /\ \A i \in 0 .. n - 1 : Bindable(Address(text, i))
         /\ Len(a.ports) + Many(text, "udp", n) <= PortMax
         => b.r = 0
  <2>1. "udp" # "tcp"
    OBVIOUS
  <2> QED
    <3>1. "udp" \in {"tcp", "udp"}
      OBVIOUS
    <3>2. Passes(text, n, a, "udp", ListenPass(a, "udp", list))
      BY <1>1, <1>2, <1>3, <1>7, <3>1, PassIs, Zenon
    <3> QED
      BY <1>6, <2>1, <3>2 DEF Passes
<1>9. Many(text, "tcp", n) \in Nat /\ Many(text, "udp", n) \in Nat
  BY <1>2, ManyNat
<1>10. a.r = 0 => Len(a.ports) = Many(text, "tcp", n)
  <2> SUFFICES ASSUME a.r = 0 PROVE Len(a.ports) = Many(text, "tcp", n)
    OBVIOUS
  <2>1. Len(a.ports) = Len(none.ports) + Many(text, "tcp", n)
    BY <1>7 DEF After
  <2> QED
    BY <1>4, <1>9, <2>1
<1>11. ASSUME \A i \in 0 .. n - 1 : Address(text, i).proto \in {"tcp", "udp"}
       PROVE  Many(text, "tcp", n) + Many(text, "udp", n) = n /\ n = Cardinality(Numbers(text))
  <2>1. Chosen(text, "tcp", n) \cup Chosen(text, "udp", n) = 0 .. n - 1
    BY <1>11 DEF Chosen
  <2>2. Cardinality(0 .. n - 1) = n
    <3>1. 0 \in Int /\ n - 1 \in Int /\ (n - 1) - 0 + 1 = n /\ (0 > n - 1 => n = 0)
      BY <1>2
    <3> QED
      BY <3>1, FS_Interval
  <2> QED
    BY <1>1, <1>2, <2>1, <2>2, Together
<1>12. ASSUME b.r = 0 PROVE Listens(text, b.ports)
  <2>1. a.r = 0 /\ After(text, none, "tcp", a, n) /\ After(text, a, "udp", b, n)
    BY <1>7, <1>8, <1>12
  <2>2. \A i \in 0 .. n - 1 : Address(text, i).proto \in {"tcp", "udp"}
    BY <2>1 DEF After
  <2>3. Len(b.ports) = Many(text, "tcp", n) + Many(text, "udp", n)
    BY <1>10, <2>1 DEF After
  <2>4. Len(b.ports) = Cardinality(Numbers(text))
    BY <1>11, <2>2, <2>3
  <2>5. ASSUME NEW i \in 0 .. n - 1, Address(text, i).proto = "tcp"
        PROVE  /\ Bindable(Address(text, i))
               /\ b.ports[Place(text, i)] = [tcp |-> IsTcp(text, i), port |-> Address(text, i).n]
    <3>1. i \in Chosen(text, "tcp", n) /\ i \in Nat
      BY <1>2, <2>5 DEF Chosen
    <3>2. /\ Bindable(Address(text, i))
          /\ a.ports[Len(none.ports) + 1 + Many(text, "tcp", i)] = PortOf("tcp", Address(text, i))
      BY <2>1, <3>1 DEF After
    <3>3. Place(text, i) = 1 + Many(text, "tcp", i)
      BY <1>1, <1>2, <2>5, PlaceOfTcp
    <3>4. Many(text, "tcp", i) \in Nat /\ Many(text, "tcp", i) + 1 <= Many(text, "tcp", n)
      BY <1>2, <3>1, ManyNat, ManyBefore
    <3>5. /\ Len(none.ports) + 1 + Many(text, "tcp", i) = Place(text, i)
          /\ Place(text, i) \in 1 .. Len(a.ports)
      BY <1>4, <1>9, <1>10, <2>1, <3>3, <3>4
    <3>6. b.ports[Place(text, i)] = a.ports[Place(text, i)]
      BY <2>1, <3>5 DEF After
    <3>7. PortOf("tcp", Address(text, i)) = [tcp |-> IsTcp(text, i), port |-> Address(text, i).n]
      BY <2>5 DEF PortOf, IsTcp
    <3> QED
      BY <3>2, <3>5, <3>6, <3>7
  <2>6. ASSUME NEW i \in 0 .. n - 1, Address(text, i).proto = "udp"
        PROVE  /\ Bindable(Address(text, i))
               /\ b.ports[Place(text, i)] = [tcp |-> IsTcp(text, i), port |-> Address(text, i).n]
    <3>1. i \in Chosen(text, "udp", n) /\ i \in Nat
      BY <1>2, <2>6 DEF Chosen
    <3>2. /\ Bindable(Address(text, i))
          /\ b.ports[Len(a.ports) + 1 + Many(text, "udp", i)] = PortOf("udp", Address(text, i))
      BY <2>1, <3>1 DEF After
    <3>3. Place(text, i) = 1 + (Many(text, "tcp", n) + Many(text, "udp", i))
      BY <1>1, <1>2, <2>2, <2>6, PlaceOfUdp
    <3>4. Many(text, "udp", i) \in Nat
      BY <3>1, ManyNat
    <3>5. Len(a.ports) + 1 + Many(text, "udp", i) = Place(text, i)
      BY <1>9, <1>10, <2>1, <3>3, <3>4
    <3>6. PortOf("udp", Address(text, i)) = [tcp |-> IsTcp(text, i), port |-> Address(text, i).n]
      BY <2>6 DEF PortOf, IsTcp
    <3> QED
      BY <3>2, <3>5, <3>6
  <2> QED
    BY <1>1, <2>2, <2>4, <2>5, <2>6 DEF Listens
<1>13. ASSUME Numbers(text) # {}, \A i \in Numbers(text) : Bindable(Address(text, i))
       PROVE  b.r = 0 /\ b.ports # <<>>
  <2>1. \A i \in 0 .. n - 1 : /\ Address(text, i).proto \in {"tcp", "udp"}
                              /\ Bindable(Address(text, i))
    <3>1. ASSUME NEW v, Bindable(v), v = Absent \/ IsValue(v) PROVE v.proto \in {"tcp", "udp"}
      BY <3>1 DEF Bindable, IsValue, Absent
    <3> QED
      BY <1>1, <1>3, <1>13, <3>1
  <2>2. n > 0 /\ Many(text, "tcp", n) + Many(text, "udp", n) = n
    BY <1>1, <1>2, <1>11, <1>13, <2>1
  <2>3. a.r = 0
    BY <1>2, <1>7, <1>9, <2>1, <2>2
  <2>4. b.r = 0
    BY <1>2, <1>8, <1>10, <2>1, <2>2, <2>3
  <2>5. Len(b.ports) = n
    BY <1>8, <1>10, <2>2, <2>3, <2>4 DEF After
  <2> QED
    BY <2>2, <2>4, <2>5
<1>14. l.r = 0 => b.r = 0 /\ l = b
  BY <1>5, <1>8 DEF Lists
<1>15. b.r = 0 /\ b.ports # <<>> => l.r = 0
  BY <1>5
<1> QED
  BY <1>12, <1>13, <1>14, <1>15 DEF l

-----------------------------------------------------------------------------
(* A configuration says what its text says.                                *)

\* What AsWritten says of a configuration and of the ports.
Says(text, ini, list) ==
  /\ WellFormed(text)
  /\ \A name \in {"server", "listen"}, key \in Keys(text) :
       Find(ini, name, key) = Written(text, name, key)
  /\ Listens(text, list)

\* The user's module is asked only without another source, and the ports are looked for only in a
\* text that could be parsed.
Follows ==
  /\ pc \in {"cOpen", "cCall", "cDrop"} => Source = "module"
  /\ pc = "cListen" => WellFormed(env.text)
  /\ config # <<>> => Says(env.text, config[1], ports)
  /\ pc = "tServer" /\ r = "INIT_CONFIG_FAILED" /\ env.fail = "none" /\ Source # "module" =>
       ~Usable(env.text)

LEMMA FollowsWritten == Follows => AsWritten
BY DEF Follows, Says, AsWritten

LEMMA EmptyText == ASSUME NEW text, text = <<>> PROVE Numbers(text) = {}
<1>1. \A name, key : Written(text, name, key) = Absent
  <2>1. Len(text) = 0
    OBVIOUS
  <2> QED
    BY <2>1 DEF Written
<1>2. \A j : Missing(Written(text, "listen", ToString(j)))
  <2>1. Missing(Absent)
    BY DEF Missing, Absent
  <2> QED
    BY <1>1, <2>1
<1>3. \A i \in 0 .. PortMax - 1 : 0 \in 0 .. i
  OBVIOUS
<1> QED
  BY <1>2, <1>3 DEF Numbers

\* A step that has nothing to do with it.
LEMMA FollowsKept ==
  ASSUME Follows, UNCHANGED <<env, ports, config>>,
         pc' \notin {"cOpen", "cCall", "cDrop", "cListen"},
         pc' = "tServer" => r' # "INIT_CONFIG_FAILED" \/ env.fail # "none"
  PROVE  Follows'
BY DEF Follows, Source

LEMMA FollowsStep == Configured /\ Follows /\ [Next]_vars => Follows'
<1> SUFFICES ASSUME Configured, Follows, [Next]_vars PROVE Follows'
  OBVIOUS
<1> USE DEF Fail, Go
<1>1. CASE SetDirectory
  <2>1. /\ UNCHANGED <<env, ports, config>>
        /\ \/ pc' = "log"
           \/ pc' = "tServer" /\ r' = "SET_CURRENT_DIRECTORY_FAILED"
    BY <1>1 DEF SetDirectory
  <2> QED
    BY <2>1, FollowsKept
<1>2. CASE OpenLog
  BY <1>2, FollowsKept DEF OpenLog
<1>3. CASE ConfigInit
  <2>1. /\ UNCHANGED <<env, config, ports>>
        /\ \/ pc' = "tServer" /\ env.fail # "none"
           \/ pc' = "cRead"
           \/ pc' = "cOpen" /\ Source = "module"
    BY <1>3 DEF ConfigInit, NoConfig, Allocates
  <2> QED
    BY <2>1 DEF Follows, Source
<1>4. CASE OpenConfigDll
  <2>1. pc = "cOpen" /\ pc' \in {"cCall", "cDrop"} /\ UNCHANGED <<env, config, ports>>
    BY <1>4, Zenon DEF OpenConfigDll
  <2> QED
    BY <2>1 DEF Follows, Source
<1>5. CASE CallConfig
  <2>1. pc = "cCall" /\ pc' \in {"cRead", "cDrop"} /\ UNCHANGED <<env, config, ports>>
    BY <1>5, Zenon DEF CallConfig
  <2> QED
    BY <2>1 DEF Follows, Source
<1>6. CASE ReadText
  <2>1. IsText(env.text)
    BY DEF Configured
  <2>2. Parse(env.text).bad <=> ~ WellFormed(env.text)
    BY <2>1, ParseIsRight
  <2>3. /\ pc = "cRead" /\ UNCHANGED <<env, config, ports>>
        /\ \/ pc' = "cListen" /\ ~ Parse(env.text).bad
           \/ /\ pc' = "tServer"
              /\ ~ Readable \/ env.fail = "text" \/ Parse(env.text).bad
    BY <1>6, Zenon DEF ReadText, NoConfig, Allocates
  <2>4. ~ Readable => env.fail # "none" \/ ~ Usable(env.text)
    BY EmptyText DEF Readable, Usable
  <2>5. Parse(env.text).bad => ~ Usable(env.text)
    BY <2>2 DEF Usable
  <2> QED
    BY <2>2, <2>3, <2>4, <2>5 DEF Follows, Source
<1>7. CASE DropContent
  BY <1>7 DEF DropContent, NoConfig, Follows, Source
<1>8. CASE Listen
  <2> DEFINE ini == Parse(env.text)
             l   == LoadListen(ini)
  <2>1. /\ pc = "cListen" /\ env' = env /\ ports' = l.ports
        /\ \/ l.r = 0 /\ config' = <<ini>> /\ pc' = "library"
           \/ l.r # 0 /\ config' = config /\ pc' = "tServer"
    BY <1>8, Zenon DEF Listen, NoConfig
  <2>2. IsText(env.text) /\ WellFormed(env.text) /\ config = <<>>
    BY <2>1 DEF Configured, Follows, Early
  <2>3. ~ ini.bad /\ \A name, key : Find(ini, name, key) = Written(env.text, name, key)
    BY <2>2, ParseIsRight
  <2>4. /\ l.r = 0 => Listens(env.text, l.ports)
        /\ l.r # 0 => ~ Usable(env.text)
    <3>1. /\ l.r = 0 => Listens(env.text, l.ports)
          /\ /\ Numbers(env.text) # {}
             /\ \A i \in Numbers(env.text) : Bindable(Address(env.text, i))
             => l.r = 0
      BY <2>2, <2>3, LoadListenIs
    <3> QED
      BY <3>1 DEF Usable
  <2>5. l.r = 0 => Says(env.text, ini, l.ports)
    BY <2>2, <2>3, <2>4 DEF Says
  <2> HIDE DEF ini, l
  <2> QED
    BY <2>1, <2>2, <2>4, <2>5 DEF Follows, Source
<1>9. CASE Smash
  BY <1>9, FollowsKept DEF Smash
<1>10. CASE LibraryInit
  BY <1>10, FollowsKept DEF LibraryInit
<1>11. CASE LoadCore
  <2>1. pc' \in {"module", "iClasses"} /\ UNCHANGED <<env, config, ports>>
    BY <1>11, Zenon DEF LoadCore
  <2> QED
    BY <2>1, FollowsKept
<1>12. CASE LibraryFails
  BY <1>12, FollowsKept DEF LibraryFails, DestroyClasses, CloseCore
<1>13. CASE ModuleInit
  <2>1. /\ UNCHANGED <<env, config, ports>>
        /\ \/ pc' \in {"mLoad", "mVersion", "mDrop"}
           \/ pc' = "tServer" /\ r' = "INIT_MODULE_FAILED"
    BY <1>13 DEF ModuleInit
  <2> QED
    BY <2>1, FollowsKept
<1>14. CASE LoadModule
  <2>1. pc' \in {"mVersion", "mDrop"} /\ UNCHANGED <<env, config, ports>>
    BY <1>14, Zenon DEF LoadModule
  <2> QED
    BY <2>1, FollowsKept
<1>15. CASE CheckVersion
  <2>1. pc' \in {"server", "mDrop", "crashed"} /\ UNCHANGED <<env, config, ports>>
    BY <1>15, Zenon DEF CheckVersion
  <2> QED
    BY <2>1, FollowsKept
<1>16. CASE ModuleFails
  BY <1>16, FollowsKept DEF ModuleFails, UnloadModule
<1>17. CASE ServerInit
  <2>1. /\ UNCHANGED <<env, config, ports>>
        /\ \/ pc' = "run"
           \/ pc' = "tServer" /\ env.fail # "none"
    BY <1>17 DEF ServerInit, NoConfig, Allocates
  <2> QED
    BY <2>1, FollowsKept
<1>18. CASE Run
  BY <1>18, FollowsKept DEF Run
<1>19. CASE ServerTerm
  BY <1>19, FollowsKept DEF ServerTerm
<1>20. CASE ModuleTerm
  <2>1. pc' = "tClasses" /\ UNCHANGED <<env, config, ports>>
    BY <1>20, Zenon DEF ModuleTerm
  <2> QED
    BY <2>1, FollowsKept
<1>21. CASE LibraryTerm
  BY <1>21, FollowsKept DEF LibraryTerm, DestroyClasses, CloseCore
<1>22. CASE ConfigTerm
  BY <1>22 DEF ConfigTerm, Follows
<1>23. CASE CloseLog
  BY <1>23, FollowsKept DEF CloseLog
<1>24. CASE UNCHANGED vars
  BY <1>24 DEF vars, Follows, Source
<1> QED
  BY <1>1, <1>2, <1>3, <1>4, <1>5, <1>6, <1>7, <1>8, <1>9, <1>10, <1>11, <1>12, <1>13, <1>14,
     <1>15, <1>16, <1>17, <1>18, <1>19, <1>20, <1>21, <1>22, <1>23, <1>24 DEF Next

\* A configuration says what its text says, and its ports are the listed addresses in their
\* order; a well formed text with valid addresses is not refused (gr_ini.c, gr_config.c:212-326,
\* 513-899).  Of any text, of any length.
THEOREM AlwaysAsWritten == Spec => []AsWritten
<1>1. Init => Follows
  BY DEF Init, Follows
<1> QED
  BY ConfiguredInit, ConfiguredStep, <1>1, FollowsStep, FollowsWritten, PTL DEF Spec

-----------------------------------------------------------------------------
(* What stops the process.                                                 *)

\* Where something is looked for in the configuration.
Looking == {"library", "core", "module", "mLoad", "mVersion"}

\* There the configuration is what became of the text.  With no function given but perhaps that for
\* the version the module is looked for; without a version function it comes to check_version only
\* when there is nothing to look in.
Alone ==
  /\ env.exe.len \in Nat /\ env.exe.ext \in Nat
  /\ pc \in Looking => config = <<Parse(env.text)>> /\ ~ Parse(env.text).bad
  /\ pc = "mLoad" => ~env.others /\ version = IF env.version THEN "caller" ELSE "null"
  /\ pc = "mVersion" /\ version = "null" => ~env.version /\ ~env.others /\ NoModuleFile
  /\ CrashesOnlyAlone

LEMMA ExePathsOverflow ==
  ASSUME NEW exe, exe.len \in Nat, exe.ext \in Nat,
         IniPathOverflows(exe) \/ ModulePathOverflows(exe)
  PROVE  exe.len + 13 >= PathMax
BY ConfigAssumption DEF IniPathOverflows, IniPathLen, ModulePathOverflows, ModulePathLen

LEMMA ModuleDllOverflows ==
  ASSUME NEW exe, exe.len \in Nat, exe.ext \in Nat, DllPathOverflows(ModulePathLen(exe))
  PROVE  exe.len + 19 >= PathMax
BY ConfigAssumption DEF DllPathOverflows, ModulePathLen

LEMMA PathRefused ==
  ASSUME NEW exe, exe.len \in Nat, ModulePathRefused(exe)
  PROVE  exe.hidden \/ exe.len \in 5 .. 8
BY DEF ModulePathRefused

\* The names that are looked up are those the text gives.
LEMMA NamesAreWritten ==
  ASSUME NEW text, IsText(text), ~ Parse(text).bad, NEW key
  PROVE  LET v == Written(text, "server", key) IN
         /\ Find(Parse(text), "server", key) = v
         /\ v = Absent \/ IsValue(v)
BY ParseIsRight, ParseIn, FindIn

LEMMA ModuleNamed ==
  ASSUME Configured, Alone, pc \in Looking
  PROVE  /\ Missing(ConfiguredModule) => Missing(Written(env.text, "server", "module"))
         /\ ~ Missing(ConfiguredModule) /\ DllPathOverflows(ModuleName.len) =>
              NamesTooLong(env.text, "module")
<1> DEFINE v == Written(env.text, "server", "module")
<1>1. Find(config[1], "server", "module") = v /\ (v = Absent \/ IsValue(v))
  <2>1. IsText(env.text) /\ ~ Parse(env.text).bad /\ config[1] = Parse(env.text)
    BY DEF Configured, Alone
  <2> QED
    BY <2>1, NamesAreWritten
<1>2. ConfiguredModule = NameOf(v)
  BY <1>1 DEF ConfiguredModule, GetString
<1> HIDE DEF v
<1>3. Missing(NameOf(v)) => Missing(v)
  BY DEF NameOf, Missing
<1>4. v = Absent => Missing(NameOf(v))
  BY DEF NameOf, Missing, Absent
<1>5. ASSUME IsValue(v), DllPathOverflows(Copied(NameOf(v)).len)
      PROVE  v.len + 6 >= PathMax
  <2>1. v.len \in Nat /\ PathMax \in Nat
    BY <1>5, ConfigAssumption DEF IsValue
  <2>2. NameOf(v).len = v.len
    BY DEF NameOf
  <2>3. CASE v.len < PathMax
    BY <1>5, <2>1, <2>2, <2>3 DEF Copied, DllPathOverflows
  <2> QED
    BY <2>1, <2>3
<1> QED
  BY <1>1, <1>2, <1>3, <1>4, <1>5 DEF v, ModuleName, NamesTooLong

LEMMA CoreNamed ==
  ASSUME Configured, Alone, pc \in Looking, DllPathOverflows(CorePath(config[1]).len)
  PROVE  NamesTooLong(env.text, "library.core")
<1> DEFINE v == Written(env.text, "server", "library.core")
           d == [is |-> "word", w |-> "library", len |-> 9]
<1>1. Find(config[1], "server", "library.core") = v /\ (v = Absent \/ IsValue(v))
  <2>1. IsText(env.text) /\ ~ Parse(env.text).bad /\ config[1] = Parse(env.text)
    BY DEF Configured, Alone
  <2> QED
    BY <2>1, NamesAreWritten
<1>2. CorePath(config[1]) = NameOf(IF v = Absent THEN d ELSE v)
  BY <1>1 DEF CorePath, GetString
<1>3. NameOf(d).len = 9
  BY DEF NameOf
<1> HIDE DEF v, d
<1>4. v # Absent => CorePath(config[1]).len = v.len
  BY <1>2 DEF NameOf
<1>5. PathMax \in Nat /\ PathMax > 15 /\ env.exe.len \in Nat
  BY ConfigAssumption DEF Alone
<1>6. CASE v = Absent
  BY <1>2, <1>3, <1>5, <1>6 DEF DllPathOverflows
<1>7. CASE v # Absent
  BY <1>1, <1>4, <1>5, <1>7 DEF DllPathOverflows, NamesTooLong, v
<1> QED
  BY <1>6, <1>7

LEMMA AloneInit == Init => Alone
<1> SUFFICES ASSUME Init PROVE Alone
  OBVIOUS
<1>1. PICK i \in DOMAIN Envs : env \in Envs[i]
  BY DEF Init
<1>2. env.exe.len \in Nat /\ env.exe.ext \in Nat
  BY <1>1, EnvsAssumption
<1>3. pc = "directory"
  BY DEF Init
<1> QED
  BY <1>2, <1>3 DEF Alone, CrashesOnlyAlone, Looking

\* A step that comes to none of the places where something is looked for.
LEMMA AloneElsewhere ==
  ASSUME Alone, env' = env, pc' \notin Looking, pc' # "crashed"
  PROVE  Alone'
BY DEF Alone, CrashesOnlyAlone, Looking

\* A step from one of them to the next, before the module is looked for.
LEMMA AloneLooking ==
  ASSUME Alone, UNCHANGED <<env, config>>, pc \in Looking,
         pc' \notin {"mLoad", "mVersion", "crashed"}
  PROVE  Alone'
BY DEF Alone, CrashesOnlyAlone

LEMMA AloneStep == Configured /\ Follows /\ Alone /\ [Next]_vars => Alone'
<1> SUFFICES ASSUME Configured, Follows, Alone, [Next]_vars PROVE Alone'
  OBVIOUS
<1> USE DEF Fail, Go
<1>1. CASE SetDirectory
  <2>1. env' = env /\ pc' \in {"tServer", "log"}
    BY <1>1, Zenon DEF SetDirectory
  <2> QED
    BY <2>1, AloneElsewhere DEF Looking
<1>2. CASE OpenLog
  BY <1>2, AloneElsewhere DEF Looking, OpenLog
<1>3. CASE ConfigInit
  BY <1>3, AloneElsewhere DEF Looking, ConfigInit, NoConfig
<1>4. CASE OpenConfigDll
  <2>1. env' = env /\ pc' \in {"cCall", "cDrop"}
    BY <1>4, Zenon DEF OpenConfigDll
  <2> QED
    BY <2>1, AloneElsewhere DEF Looking
<1>5. CASE CallConfig
  <2>1. env' = env /\ pc' \in {"cRead", "cDrop"}
    BY <1>5, Zenon DEF CallConfig
  <2> QED
    BY <2>1, AloneElsewhere DEF Looking
<1>6. CASE ReadText
  <2>1. env' = env /\ pc' \in {"cListen", "tServer"}
    BY <1>6, Zenon DEF ReadText, NoConfig
  <2> QED
    BY <2>1, AloneElsewhere DEF Looking
<1>7. CASE DropContent
  BY <1>7, AloneElsewhere DEF Looking, DropContent, NoConfig
<1>8. CASE Listen
  <2>1. /\ pc = "cListen" /\ env' = env
        /\ \/ config' = <<Parse(env.text)>> /\ pc' = "library"
           \/ pc' = "tServer"
    BY <1>8, Zenon DEF Listen, NoConfig
  <2>2. ~ Parse(env.text).bad
    BY <2>1, ParseIsRight DEF Follows, Configured
  <2>3. CASE pc' = "library"
    BY <2>1, <2>2, <2>3 DEF Alone, CrashesOnlyAlone
  <2>4. CASE pc' = "tServer"
    BY <2>1, <2>4, AloneElsewhere DEF Looking
  <2> QED
    BY <2>1, <2>3, <2>4
<1>9. CASE Smash
  <2>1. env' = env /\ pc' = "crashed" /\ (ExePathOverflows \/ NameOverflows)
    BY <1>9, Zenon DEF Smash
  <2>2. env.exe.len \in Nat /\ env.exe.ext \in Nat
    BY DEF Alone
  <2>3. CASE ExePathOverflows
    <3>1. IniPathOverflows(env.exe) \/ ModulePathOverflows(env.exe)
      BY <2>3 DEF ExePathOverflows
    <3>2. env.exe.len + 13 >= PathMax
      BY <2>2, <3>1, ExePathsOverflow
    <3> QED
      BY <2>1, <3>2 DEF Alone, CrashesOnlyAlone, Looking
  <2>4. CASE NameOverflows
    <3>1. CASE pc = "cOpen" /\ ModuleFound /\ DllPathOverflows(ModulePathLen(env.exe))
      <4>1. Source = "module" /\ env.exe.len + 19 >= PathMax
        BY <2>2, <3>1, ModuleDllOverflows DEF Follows
      <4>2. Source' = Source
        BY <2>1 DEF Source
      <4> QED
        BY <2>1, <4>1, <4>2 DEF Alone, CrashesOnlyAlone, Looking
    <3>2. CASE pc = "core" /\ CoreFound /\ DllPathOverflows(CorePath(config[1]).len)
      <4>1. NamesTooLong(env.text, "library.core")
        BY <3>2, CoreNamed DEF Looking
      <4> QED
        BY <2>1, <4>1 DEF Alone, CrashesOnlyAlone, Looking
    <3>3. CASE pc = "mLoad" /\ ~Missing(ConfiguredModule) /\ DllPathOverflows(ModuleName.len)
      <4>1. NamesTooLong(env.text, "module")
        BY <3>3, ModuleNamed DEF Looking
      <4> QED
        BY <2>1, <4>1 DEF Alone, CrashesOnlyAlone, Looking
    <3> QED
      BY <2>4, <3>1, <3>2, <3>3 DEF NameOverflows
  <2> QED
    BY <2>1, <2>3, <2>4
<1>10. CASE LibraryInit
  <2>1. /\ pc = "library" /\ UNCHANGED <<env, config>>
        /\ pc' \in {"tServer", "iClasses", "core"}
    BY <1>10 DEF LibraryInit
  <2> QED
    BY <2>1, AloneLooking DEF Looking
<1>11. CASE LoadCore
  <2>1. pc = "core" /\ UNCHANGED <<env, config>> /\ pc' \in {"module", "iClasses"}
    BY <1>11, Zenon DEF LoadCore
  <2> QED
    BY <2>1, AloneLooking DEF Looking
<1>12. CASE LibraryFails
  BY <1>12, AloneElsewhere DEF Looking, LibraryFails, DestroyClasses, CloseCore
<1>13. CASE ModuleInit
  <2>1. CASE pc' \notin {"mLoad", "mVersion"}
    <3>1. env' = env /\ pc' \in {"tServer", "mDrop"}
      BY <1>13, <2>1, Zenon DEF ModuleInit
    <3> QED
      BY <3>1, AloneElsewhere DEF Looking
  <2>2. CASE pc' \in {"mLoad", "mVersion"}
    <3>1. /\ pc = "module" /\ UNCHANGED <<env, config>>
          /\ version' = IF env.version THEN "caller" ELSE "null"
          /\ pc' = IF ~env.others THEN "mLoad" ELSE IF env.version THEN "mVersion" ELSE "mDrop"
      BY <1>13, <2>2 DEF ModuleInit
    <3>2. pc' = "mLoad" => ~env.others
      BY <3>1
    <3>3. pc' = "mVersion" => version' = "caller"
      BY <3>1
    <3> QED
      BY <2>2, <3>1, <3>2, <3>3 DEF Alone, CrashesOnlyAlone, Looking
  <2> QED
    BY <2>1, <2>2
<1>14. CASE LoadModule
  <2>1. /\ pc = "mLoad" /\ UNCHANGED <<env, config>>
        /\ \/ NoModuleFile /\ pc' = "mVersion" /\ version' = version
           \/ pc' = "mDrop"
           \/ pc' = "mVersion" /\ version' = "dll"
    BY <1>14, Zenon DEF LoadModule
  <2>2. NoModuleFile' <=> NoModuleFile
    BY <2>1 DEF NoModuleFile, ModuleFound, ConfiguredModule
  <2>3. version = "null" => ~env.version
    BY <2>1 DEF Alone
  <2>4. CASE pc' = "mDrop"
    BY <2>1, <2>4, AloneElsewhere DEF Looking
  <2>5. CASE pc' = "mVersion"
    BY <2>1, <2>2, <2>3, <2>5 DEF Alone, CrashesOnlyAlone, Looking
  <2> QED
    BY <2>1, <2>4, <2>5
<1>15. CASE CheckVersion
  <2>1. /\ pc = "mVersion" /\ UNCHANGED <<env, config, version>>
        /\ \/ version = "null" /\ pc' = "crashed"
           \/ pc' \in {"server", "mDrop"}
    BY <1>15, Zenon DEF CheckVersion
  <2>2. CASE pc' = "crashed"
    <3>1. ~env.version /\ ~env.others /\ NoModuleFile
      BY <2>1, <2>2 DEF Alone
    <3>2. ModulePathRefused(env.exe) => env.exe.hidden \/ env.exe.len \in 5 .. 8
      BY PathRefused DEF Alone
    <3>3. Missing(ConfiguredModule) /\ ~ModuleFound
      BY <3>1 DEF NoModuleFile
    <3>4. Missing(Written(env.text, "server", "module"))
      BY <2>1, <3>3, ModuleNamed DEF Looking
    <3>5. ModulePath \notin env.files \/ env.exe.hidden \/ env.exe.len \in 5 .. 8
      BY <3>2, <3>3 DEF ModuleFound
    <3> QED
      BY <2>1, <2>2, <3>1, <3>4, <3>5 DEF Alone, CrashesOnlyAlone, Looking
  <2>3. CASE pc' # "crashed"
    BY <2>1, <2>3, AloneElsewhere DEF Looking
  <2> QED
    BY <2>2, <2>3
<1>16. CASE ModuleFails
  BY <1>16, AloneElsewhere DEF Looking, ModuleFails
<1>17. CASE ServerInit
  BY <1>17, AloneElsewhere DEF Looking, ServerInit, NoConfig
<1>18. CASE Run
  BY <1>18, AloneElsewhere DEF Looking, Run
<1>19. CASE ServerTerm
  BY <1>19, AloneElsewhere DEF Looking, ServerTerm
<1>20. CASE ModuleTerm
  BY <1>20, AloneElsewhere DEF Looking, ModuleTerm
<1>21. CASE LibraryTerm
  BY <1>21, AloneElsewhere DEF Looking, LibraryTerm, DestroyClasses, CloseCore
<1>22. CASE ConfigTerm
  BY <1>22, AloneElsewhere DEF Looking, ConfigTerm
<1>23. CASE CloseLog
  BY <1>23, AloneElsewhere DEF Looking, CloseLog
<1>24. CASE UNCHANGED vars
  BY <1>24 DEF vars, Alone, CrashesOnlyAlone, Source, NoModuleFile, ModuleFound, ConfiguredModule
<1> QED
  BY <1>1, <1>2, <1>3, <1>4, <1>5, <1>6, <1>7, <1>8, <1>9, <1>10, <1>11, <1>12, <1>13, <1>14,
     <1>15, <1>16, <1>17, <1>18, <1>19, <1>20, <1>21, <1>22, <1>23, <1>24 DEF Next

\* gr_main stops its process, by a call through NULL or a path longer than its buffer, only when
\* there is no module at all, or when the path of the executable, or the name of a library the
\* text gives, leaves no room for what is put around it (gr_module.c:131, gr_config.c:80, 148,
\* gr_dll.c:220).
THEOREM CrashesAlwaysAlone == Spec => []CrashesOnlyAlone
<1>1. Init => Follows
  BY DEF Init, Follows
<1>2. Alone => CrashesOnlyAlone
  BY DEF Alone
<1> QED
  BY ConfiguredInit, ConfiguredStep, <1>1, FollowsStep, AloneInit, AloneStep, <1>2, PTL DEF Spec
=============================================================================
