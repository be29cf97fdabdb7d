--------------------------- MODULE WebServerProof ---------------------------
(***************************************************************************)
(* Safety of the web server for any number of connections, any number of   *)
(* handles and any depth of includes.                                      *)
(***************************************************************************)
EXTENDS WebServer, TLAPS

Handle == 1..(MaxOpen - 1)

FileLists == [1..Depth -> Handle \cup {Other, Invalid}]

Once(f) == \A i, j \in 1..Depth : f[i] = f[j] /\ f[i] \in Stub => i = j

\* the handles of the other connections
Rest(c) == UNION {HandlesOf(files[d]) : d \in Conns \ {c}}

\* the stubs S are those of the files f and of the other connections R
Good(f, S, R) == S = HandlesOf(f) \cup R /\ HandlesOf(f) \cap R = {} /\ Once(f)

Owned ==
    /\ \A h : h \in stubs <=> \E c \in Conns : h \in HandlesOf(files[c])
    /\ \A c, d \in Conns : c # d => HandlesOf(files[c]) \cap HandlesOf(files[d]) = {}
    /\ \A c \in Conns : Once(files[c])

(***************************************************************************)
(* The inductive invariant: what is not in the list has neither a page nor *)
(* a file, and a page that was not asked for saves nothing.                *)
(***************************************************************************)
IInv ==
    /\ TypeOK
    /\ \A c \in Conns : conn[c] = "none" => page[c] = NoPage /\ files[c] = NoFiles
    /\ \A c \in Conns : page[c].at = "head" => ~page[c].save
    /\ CallbacksOfLinked
    /\ SettingsKept
    /\ upset \/ Owned

(***************************************************************************)
(* What a callback of c may end with: the page p, the files f, the stubs   *)
(* S; u says whether WEBFSInit has run under an open file.                 *)
(***************************************************************************)
Fits(c, p, f, S, u) ==
    /\ p \in Pages /\ (page[c].save => p.save)
    /\ f \in FileLists /\ S \in SUBSET Handle
    /\ u \/ Good(f, S, Rest(c))

-----------------------------------------------------------------------------
(* Handles and lists of files.                                             *)

LEMMA HandlesAre ==
    \A f, h : h \in HandlesOf(f) <=> h \in Stub /\ \E i \in 1..Depth : f[i] = h
BY DEF HandlesOf

LEMMA NoHandles == HandlesOf(NoFiles) = {} /\ NoFiles \in FileLists /\ Once(NoFiles)
BY WebAssumption DEF HandlesOf, NoFiles, FileLists, Once, Stub, Invalid, Handle

\* A handle that WEBFSOpen finds is free and not the last one.
LEMMA OpenedIsFree ==
    ASSUME NEW S \in SUBSET Handle, NEW h \in WEBFSOpen(S)
    PROVE  h \in Handle /\ h \notin S
<1>1. h \in 1..(MaxOpen + 1) /\ h \notin S /\ h # MaxOpen /\ \A k \in 1..(h - 1) : k \in S
    BY DEF WEBFSOpen, FreeHandle
<1>2. h # MaxOpen + 1
    <2>1. MaxOpen \notin S /\ MaxOpen \in 1..MaxOpen
        BY WebAssumption DEF WebAssumption, Handle
    <2> QED BY <1>1, <2>1, WebAssumption DEF WebAssumption
<1> QED BY <1>1, <1>2, WebAssumption DEF WebAssumption, Handle

\* web_inc_fclose closes the first file and moves the others up.
LEMMA PoppedGood ==
    ASSUME NEW f \in FileLists, NEW S \in SUBSET Handle, NEW R, Good(f, S, R)
    PROVE  Good(Popped(f), S \ First(f), R)
<1> DEFINE g == Popped(f)
<1>1. \A i \in 1..Depth : g[i] = IF i = Depth THEN Invalid ELSE f[i + 1]
    BY DEF Popped
<1>2. Invalid \notin Stub
    BY DEF Invalid, Stub
<1>3. Once(g)
    <2> SUFFICES ASSUME NEW i \in 1..Depth, NEW j \in 1..Depth, g[i] = g[j], g[i] \in Stub
                 PROVE  i = j
        BY DEF Once
    <2>1. i # Depth /\ j # Depth
        BY <1>1, <1>2
    <2>2. i + 1 \in 1..Depth /\ j + 1 \in 1..Depth
        BY <2>1, WebAssumption DEF WebAssumption
    <2>3. i + 1 = j + 1
        BY <1>1, <2>1, <2>2 DEF Good, Once
    <2> QED BY <2>3
<1>4. ASSUME NEW h
      PROVE  h \in HandlesOf(g) <=> h \in HandlesOf(f) /\ h # f[1]
    <2>1. ASSUME h \in HandlesOf(g) PROVE h \in HandlesOf(f) /\ h # f[1]
        <3>1. PICK i \in 1..Depth : g[i] = h /\ h \in Stub
            BY <2>1, HandlesAre
        <3>2. i # Depth /\ i + 1 \in 1..Depth /\ 1 \in 1..Depth
            BY <1>1, <1>2, <3>1, WebAssumption DEF WebAssumption
        <3>3. f[i + 1] = h
            BY <1>1, <3>1, <3>2
        <3>4. f[1] = f[i + 1] => 1 = i + 1
            BY <3>1, <3>2, <3>3 DEF Good, Once
        <3> QED BY <3>1, <3>2, <3>3, <3>4, HandlesAre
    <2>2. ASSUME h \in HandlesOf(f), h # f[1] PROVE h \in HandlesOf(g)
        <3>1. PICK i \in 1..Depth : f[i] = h /\ h \in Stub
            BY <2>2, HandlesAre
        <3>2. i # 1 /\ i - 1 \in 1..Depth /\ i - 1 # Depth /\ (i - 1) + 1 = i
            BY <2>2, <3>1, WebAssumption DEF WebAssumption
        <3>3. g[i - 1] = h
            BY <1>1, <3>1, <3>2
        <3> QED BY <3>1, <3>2, <3>3, HandlesAre
    <2> QED BY <2>1, <2>2
<1>5. First(f) = IF f[1] \in Stub THEN {f[1]} ELSE {}
    BY DEF First
<1>6. f[1] \in Stub => f[1] \in HandlesOf(f)
    BY HandlesAre, WebAssumption DEF WebAssumption
<1>7. \A h \in HandlesOf(f) : h \in Stub
    BY HandlesAre
<1> HIDE DEF g
<1>8. S \ First(f) = HandlesOf(g) \cup R
    BY <1>4, <1>5, <1>6, <1>7 DEF Good
<1>9. HandlesOf(g) \cap R = {}
    BY <1>4 DEF Good
<1>10. Good(g, S \ First(f), R)
    BY <1>3, <1>8, <1>9 DEF Good
<1> QED BY <1>10 DEF g

LEMMA PoppedType ==
    ASSUME NEW f \in FileLists
    PROVE  Popped(f) \in FileLists
BY WebAssumption DEF WebAssumption, FileLists, Popped

\* web_inc_fp puts a file in front and closes the one that falls off.
LEMMA PushedGood ==
    ASSUME NEW f \in FileLists, NEW S \in SUBSET Handle, NEW R, Good(f, S, R),
           NEW h \in Handle, h \notin S
    PROVE  Good(Pushed(f, h), (S \cup {h}) \ FallsOff(f), R)
<1> DEFINE g == Pushed(f, h)
<1>1. \A i \in 1..Depth : g[i] = IF i = 1 THEN h ELSE f[i - 1]
    BY DEF Pushed
<1>2. h \in Stub /\ h \notin HandlesOf(f) /\ h \notin R
    BY WebAssumption DEF WebAssumption, Stub, Handle, Good
<1>3. \A i \in 1..Depth : f[i] # h
    BY <1>2, HandlesAre
<1>4. Once(g)
    <2> SUFFICES ASSUME NEW i \in 1..Depth, NEW j \in 1..Depth, g[i] = g[j], g[i] \in Stub
                 PROVE  i = j
        BY DEF Once
    <2>1. CASE i = 1 \/ j = 1
        <3>1. \A k \in 1..Depth : k # 1 => k - 1 \in 1..Depth
            BY WebAssumption DEF WebAssumption
        <3> QED BY <1>1, <1>3, <2>1, <3>1
    <2>2. CASE i # 1 /\ j # 1
        <3>1. i - 1 \in 1..Depth /\ j - 1 \in 1..Depth
            BY <2>2, WebAssumption DEF WebAssumption
        <3>2. i - 1 = j - 1
            BY <1>1, <2>2, <3>1 DEF Good, Once
        <3> QED BY <3>2
    <2> QED BY <2>1, <2>2
<1>5. Depth \in 1..Depth /\ 1 \in 1..Depth
    BY WebAssumption DEF WebAssumption
<1>6. ASSUME NEW k
      PROVE  k \in HandlesOf(g) <=> k = h \/ (k \in HandlesOf(f) /\ k # f[Depth])
    <2>1. ASSUME k \in HandlesOf(g), k # h PROVE k \in HandlesOf(f) /\ k # f[Depth]
        <3>1. PICK i \in 1..Depth : g[i] = k /\ k \in Stub
            BY <2>1, HandlesAre
        <3>2. i # 1 /\ i - 1 \in 1..Depth /\ i - 1 # Depth
            BY <1>1, <2>1, <3>1, WebAssumption DEF WebAssumption
        <3>3. f[i - 1] = k
            BY <1>1, <3>1, <3>2
        <3>4. f[Depth] # k
            BY <1>5, <3>1, <3>2, <3>3 DEF Good, Once
        <3> QED BY <3>1, <3>2, <3>3, <3>4, HandlesAre
    <2>2. h \in HandlesOf(g)
        BY <1>1, <1>2, <1>5, HandlesAre
    <2>3. ASSUME k \in HandlesOf(f), k # f[Depth] PROVE k \in HandlesOf(g)
        <3>1. PICK i \in 1..Depth : f[i] = k /\ k \in Stub
            BY <2>3, HandlesAre
        <3>2. i # Depth /\ i + 1 \in 1..Depth /\ i + 1 # 1 /\ (i + 1) - 1 = i
            BY <2>3, <3>1, WebAssumption DEF WebAssumption
        <3>3. g[i + 1] = k
            BY <1>1, <3>1, <3>2
        <3> QED BY <3>1, <3>2, <3>3, HandlesAre
    <2> QED BY <2>1, <2>2, <2>3
<1>7. FallsOff(f) = IF f[Depth] \in Stub THEN {f[Depth]} ELSE {}
    BY DEF FallsOff
<1>8. /\ f[Depth] \in Stub => f[Depth] \in HandlesOf(f)
      /\ \A k \in HandlesOf(f) : k \in Stub
    BY <1>5, HandlesAre
<1> HIDE DEF g
<1>9. (S \cup {h}) \ FallsOff(f) = HandlesOf(g) \cup R
    BY <1>2, <1>6, <1>7, <1>8 DEF Good
<1>10. HandlesOf(g) \cap R = {}
    BY <1>2, <1>6 DEF Good
<1>11. Good(g, (S \cup {h}) \ FallsOff(f), R)
    BY <1>4, <1>9, <1>10 DEF Good
<1> QED BY <1>11 DEF g

LEMMA PushedType ==
    ASSUME NEW f \in FileLists, NEW h \in Handle \cup {Other, Invalid}
    PROVE  Pushed(f, h) \in FileLists
BY WebAssumption DEF WebAssumption, FileLists, Pushed

\* A file that needs no handle may be put in front of nothing.
LEMMA OtherGood ==
    ASSUME NEW S, NEW R, Good(NoFiles, S, R)
    PROVE  Good(Pushed(NoFiles, Other), S, R)
<1> DEFINE g == Pushed(NoFiles, Other)
<1>1. \A i \in 1..Depth : g[i] \notin Stub
    BY WebAssumption DEF WebAssumption, Pushed, NoFiles, Stub, Other, Invalid
<1>2. HandlesOf(g) = {} /\ Once(g)
    BY <1>1, HandlesAre DEF Once
<1> QED BY <1>2, NoHandles DEF Good

-----------------------------------------------------------------------------
(* The same for what a callback may end with.                              *)

LEMMA FitsClosed ==
    ASSUME NEW c, NEW p, NEW f, NEW S, NEW u \in BOOLEAN, Fits(c, p, f, S, u)
    PROVE  Fits(c, p, NoFiles, S \ HandlesOf(f), u)
<1>1. Good(f, S, Rest(c)) => Good(NoFiles, S \ HandlesOf(f), Rest(c))
    BY NoHandles DEF Good
<1> QED BY <1>1, NoHandles DEF Fits

LEMMA FitsPopped ==
    ASSUME NEW c, NEW p, NEW f, NEW S, NEW u \in BOOLEAN, Fits(c, p, f, S, u)
    PROVE  Fits(c, p, Popped(f), S \ First(f), u)
<1>1. f \in FileLists /\ S \in SUBSET Handle
    BY DEF Fits
<1>2. Good(f, S, Rest(c)) => Good(Popped(f), S \ First(f), Rest(c))
    BY <1>1, PoppedGood
<1> QED BY <1>1, <1>2, PoppedType DEF Fits

LEMMA FitsPushed ==
    ASSUME NEW c, NEW p, NEW f, NEW S, NEW u \in BOOLEAN, Fits(c, p, f, S, u),
           NEW h \in WEBFSOpen(S)
    PROVE  Fits(c, p, Pushed(f, h), (S \cup {h}) \ FallsOff(f), u)
<1>1. f \in FileLists /\ S \in SUBSET Handle
    BY DEF Fits
<1>2. h \in Handle /\ h \notin S
    BY <1>1, OpenedIsFree
<1>3. Good(f, S, Rest(c)) => Good(Pushed(f, h), (S \cup {h}) \ FallsOff(f), Rest(c))
    BY <1>1, <1>2, PushedGood
<1>4. Pushed(f, h) \in FileLists
    BY <1>1, <1>2, PushedType
<1>5. (S \cup {h}) \ FallsOff(f) \in SUBSET Handle
    BY <1>1, <1>2
<1> QED BY <1>3, <1>4, <1>5 DEF Fits

\* Another page of the same connection, with the same files.
LEMMA FitsPage ==
    ASSUME NEW c, NEW p, NEW f, NEW S, NEW u \in BOOLEAN, Fits(c, p, f, S, u),
           NEW q \in Pages, q.save = p.save
    PROVE  Fits(c, q, f, S, u)
BY DEF Fits

LEMMA PageFacts ==
    ASSUME NEW p \in Pages
    PROVE  /\ Ended(p) \in Pages /\ Ended(p).save = p.save /\ Ended(p).at = "end"
           /\ \A b \in BOOLEAN : /\ [p EXCEPT !.parse = b] \in Pages
                                 /\ [p EXCEPT !.parse = b].save = p.save
                                 /\ [p EXCEPT !.parse = b].at = p.at
           /\ [p EXCEPT !.at = "send"] \in Pages /\ [p EXCEPT !.at = "send"].save = p.save
           /\ [p EXCEPT !.at = "send"].at = "send"
BY DEF Pages, Ended

-----------------------------------------------------------------------------
(* The ends of a callback keep the invariant.                              *)

\* c can be called back, and what its callback ends with fits
Ends(c, p, f, S) ==
    /\ IInv /\ c \in Conns /\ pcb[c] \in {"served", "polled"}
    /\ Fits(c, p, f, S, upset')
    /\ locked' \in BOOLEAN /\ upset' \in BOOLEAN /\ (upset => upset')

\* The connection stays in the list, in the state that its callbacks expect.
LEMMA StaysKeeps ==
    ASSUME NEW c, NEW p, NEW f, NEW S, Ends(c, p, f, S),
           p.at = "head" => ~p.save,
           page' = [page EXCEPT ![c] = p], files' = [files EXCEPT ![c] = f], stubs' = S,
           dirty' = Asked(c, p), server' = server,
           \/ conn' = [conn EXCEPT ![c] = "connect"] /\ pcb' = pcb /\ pcb[c] = "served"
           \/ conn' = [conn EXCEPT ![c] = "closewait"] /\ pcb' = [pcb EXCEPT ![c] = "polled"]
    PROVE  IInv'
<1>1. /\ c \in Conns /\ IInv /\ TypeOK
      /\ p \in Pages /\ f \in FileLists /\ S \in SUBSET Handle
    BY DEF Ends, Fits, IInv
<1>2. /\ conn' \in [Conns -> {"none", "connect", "closewait"}]
      /\ pcb' \in [Conns -> {"none", "served", "polled", "left"}]
      /\ conn'[c] # "none" /\ \A d \in Conns \ {c} : conn'[d] = conn[d] /\ pcb'[d] = pcb[d]
    BY <1>1 DEF TypeOK
<1>3. CallbacksOfLinked'
    <2>1. /\ pcb'[c] = "served" => conn'[c] = "connect"
          /\ pcb'[c] = "polled" => conn'[c] = "closewait"
        BY <1>1 DEF TypeOK
    <2> QED BY <1>1, <1>2, <2>1 DEF CallbacksOfLinked, IInv
<1>4. /\ page'[c] = p /\ files'[c] = f
      /\ \A d \in Conns \ {c} : page'[d] = page[d] /\ files'[d] = files[d]
    BY <1>1 DEF TypeOK
<1>5. TypeOK'
    <2>1. dirty' \in BOOLEAN
        BY <1>1 DEF Asked, TypeOK, Pages
    <2> QED BY <1>1, <1>2, <2>1 DEF TypeOK, Ends, FileLists, Handle
<1>6. SettingsKept'
    <2> SUFFICES ASSUME dirty' PROVE \E d \in Conns : conn'[d] # "none" /\ page'[d].save
        BY DEF SettingsKept, Linked
    <2>1. CASE p.save
        BY <1>1, <1>2, <1>4, <2>1
    <2>2. CASE ~p.save
        <3>1. dirty /\ ~page[c].save
            BY <2>2 DEF Asked, Ends, Fits
        <3>2. PICK d \in Conns : conn[d] # "none" /\ page[d].save
            BY <1>1, <3>1 DEF IInv, SettingsKept, Linked
        <3> QED BY <1>2, <1>4, <3>1, <3>2
    <2> QED BY <2>1, <2>2
<1>7. upset' \/ Owned'
    <2> SUFFICES ASSUME ~upset' PROVE Owned'
        OBVIOUS
    <2>1. Good(f, S, Rest(c))
        BY DEF Ends, Fits
    <2>2. /\ \A d \in Conns \ {c} : HandlesOf(f) \cap HandlesOf(files[d]) = {}
          /\ \A h : h \in S <=> h \in HandlesOf(f) \/ \E d \in Conns \ {c} : h \in HandlesOf(files[d])
        BY <2>1 DEF Good, Rest
    <2>3. Owned
        BY <1>1 DEF Ends, IInv
    <2>4. \A d \in Conns : HandlesOf(files'[d]) = IF d = c THEN HandlesOf(f) ELSE HandlesOf(files[d])
        BY <1>4
    <2>5. \A h : h \in stubs' <=> \E d \in Conns : h \in HandlesOf(files'[d])
        BY <1>1, <2>2, <2>4
    <2>6. \A d, b \in Conns : d # b => HandlesOf(files'[d]) \cap HandlesOf(files'[b]) = {}
        BY <2>2, <2>3, <2>4 DEF Owned
    <2>7. \A d \in Conns : Once(files'[d])
        BY <1>4, <2>1, <2>3 DEF Owned, Good
    <2> QED BY <2>5, <2>6, <2>7 DEF Owned
<1>8. /\ \A d \in Conns : conn'[d] = "none" => page'[d] = NoPage /\ files'[d] = NoFiles
      /\ \A d \in Conns : page'[d].at = "head" => ~page'[d].save
    BY <1>1, <1>2, <1>4 DEF IInv
<1> QED BY <1>3, <1>5, <1>6, <1>7, <1>8 DEF IInv

\* The connection leaves the list, alone or with all others.
LEMMA DeleteKeeps ==
    ASSUME NEW c, NEW p, NEW f, NEW S, Ends(c, p, f, S),
           NEW q \in {"left", "none"}, tcpsrv_list_delete(c, p, f, S, q)
    PROVE  IInv'
<1> DEFINE D == Dropped(c, p)
<1>1. /\ c \in Conns /\ IInv /\ TypeOK
      /\ p \in Pages /\ f \in FileLists /\ S \in SUBSET Handle
    BY DEF Ends, Fits, IInv
<1>2. c \in D /\ D \subseteq Conns
    BY <1>1 DEF Dropped, Linked
<1>3. /\ \A d \in Conns : d \in D => conn'[d] = "none" /\ page'[d] = NoPage /\ files'[d] = NoFiles
      /\ \A d \in Conns : d \notin D => /\ conn'[d] = conn[d] /\ page'[d] = page[d]
                                        /\ files'[d] = files[d] /\ pcb'[d] = pcb[d]
      /\ \A d \in D : pcb'[d] \in {"left", "none"}
    BY <1>1, <1>2 DEF tcpsrv_list_delete
<1>4. stubs' = (S \ HandlesOf(f)) \ UNION {HandlesOf(files[d]) : d \in D \ {c}}
    BY DEF tcpsrv_list_delete
<1>5. NoPage \in Pages /\ NoPage.at = "head" /\ ~NoPage.save
    BY DEF NoPage, Pages
<1>6. TypeOK'
    <2>1. /\ conn' \in [Conns -> {"none", "connect", "closewait"}]
          /\ pcb' \in [Conns -> {"none", "served", "polled", "left"}]
          /\ page' \in [Conns -> Pages]
          /\ files' \in [Conns -> FileLists]
        BY <1>1, <1>2, <1>5, NoHandles DEF tcpsrv_list_delete, TypeOK, FileLists, Handle
    <2>2. stubs' \in SUBSET Handle
        BY <1>1, <1>4
    <2>3. dirty' \in BOOLEAN
        BY <1>1 DEF tcpsrv_list_delete, Asked, SavesAny, TypeOK, Pages
    <2>4. server' \in BOOLEAN
        BY <1>1 DEF tcpsrv_list_delete, TypeOK
    <2> QED BY <2>1, <2>2, <2>3, <2>4 DEF TypeOK, Ends, FileLists, Handle
<1>7. CallbacksOfLinked'
    BY <1>1, <1>2, <1>3 DEF CallbacksOfLinked, IInv
<1>8. SettingsKept'
    <2> SUFFICES ASSUME dirty' PROVE \E d \in Conns : conn'[d] # "none" /\ page'[d].save
        BY DEF SettingsKept, Linked
    <2>1. Asked(c, p) /\ ~p.save /\ \A d \in D \ {c} : ~page[d].save
        BY DEF tcpsrv_list_delete, SavesAny
    <2>2. dirty /\ ~page[c].save
        BY <2>1 DEF Asked, Ends, Fits
    <2>3. PICK d \in Conns : conn[d] # "none" /\ page[d].save
        BY <1>1, <2>2 DEF IInv, SettingsKept, Linked
    <2>4. d \notin D
        BY <2>1, <2>2, <2>3
    <2> QED BY <1>3, <2>3, <2>4
<1>9. upset' \/ Owned'
    <2> SUFFICES ASSUME ~upset' PROVE Owned'
        OBVIOUS
    <2>1. Good(f, S, Rest(c)) /\ Owned
        BY DEF Ends, Fits, IInv
    <2>2. \A h : h \in S \ HandlesOf(f) <=> \E d \in Conns \ {c} : h \in HandlesOf(files[d])
        BY <2>1 DEF Good, Rest
    <2>3. \A d \in Conns : HandlesOf(files'[d]) = IF d \in D THEN {} ELSE HandlesOf(files[d])
        BY <1>3, NoHandles
    <2>4. \A h : h \in stubs' <=> /\ h \in S \ HandlesOf(f)
                                  /\ \A d \in D \ {c} : h \notin HandlesOf(files[d])
        BY <1>4
    <2>5. ASSUME NEW h PROVE h \in stubs' <=> \E d \in Conns : h \in HandlesOf(files'[d])
        <3>1. ASSUME h \in stubs' PROVE \E d \in Conns : h \in HandlesOf(files'[d])
            <4>1. PICK d \in Conns \ {c} : h \in HandlesOf(files[d])
                BY <2>2, <2>4, <3>1
            <4>2. d \notin D
                BY <2>4, <3>1, <4>1
            <4> QED BY <2>3, <4>1, <4>2
        <3>2. ASSUME NEW d \in Conns, h \in HandlesOf(files'[d]) PROVE h \in stubs'
            <4>1. d \notin D /\ h \in HandlesOf(files[d])
                BY <2>3, <3>2
            <4>2. h \in S \ HandlesOf(f)
                BY <1>2, <2>2, <4>1
            <4>3. \A b \in D \ {c} : h \notin HandlesOf(files[b])
                BY <1>2, <2>1, <4>1 DEF Owned
            <4> QED BY <2>4, <4>2, <4>3
        <3> QED BY <3>1, <3>2
    <2>6. \A d, b \in Conns : d # b => HandlesOf(files'[d]) \cap HandlesOf(files'[b]) = {}
        BY <2>1, <2>3 DEF Owned
    <2>7. \A d \in Conns : Once(files'[d])
        BY <1>3, <2>1, NoHandles DEF Owned
    <2> QED BY <2>5, <2>6, <2>7 DEF Owned
<1>10. /\ \A d \in Conns : conn'[d] = "none" => page'[d] = NoPage /\ files'[d] = NoFiles
       /\ \A d \in Conns : page'[d].at = "head" => ~page'[d].save
    BY <1>1, <1>3, <1>5 DEF IInv
<1> QED BY <1>6, <1>7, <1>8, <1>9, <1>10 DEF IInv

LEMMA GoesOnKeeps ==
    ASSUME NEW c, NEW p, NEW f, NEW S, Ends(c, p, f, S), p.at = "head" => ~p.save,
           pcb[c] = "served", GoesOn(c, p, f, S)
    PROVE  IInv'
BY StaysKeeps DEF GoesOn

LEMMA CloseKeeps ==
    ASSUME NEW c, NEW p, NEW f, NEW S, Ends(c, p, f, S), tcpsrv_server_close(c, p, f, S)
    PROVE  IInv'
<1>1. CASE tcpsrv_list_delete(c, p, f, S, "left")
    BY <1>1, DeleteKeeps
<1>2. CASE ~tcpsrv_list_delete(c, p, f, S, "left")
    <2> DEFINE r == Ended(p)
    <2>1. /\ conn' = [conn EXCEPT ![c] = "closewait"] /\ pcb' = [pcb EXCEPT ![c] = "polled"]
          /\ page' = [page EXCEPT ![c] = r] /\ files' = [files EXCEPT ![c] = f]
          /\ stubs' = S /\ dirty' = Asked(c, p) /\ server' = server
        BY <1>2 DEF tcpsrv_server_close, WithoutCallbacks, StillPolled
    <2>2. r \in Pages /\ r.save = p.save /\ r.at = "end"
        BY PageFacts DEF Ends, Fits
    <2>3. Ends(c, r, f, S) /\ Asked(c, p) = Asked(c, r)
        BY <2>2, FitsPage DEF Ends, Asked
    <2> HIDE DEF r
    <2> QED BY <2>1, <2>2, <2>3, StaysKeeps
<1> QED BY <1>1, <1>2

LEMMA DisconnectKeeps ==
    ASSUME NEW c, NEW p, NEW f, NEW S, Ends(c, p, f, S), pcb[c] = "served",
           web_int_disconnect(c, p, f, S)
    PROVE  IInv'
<1> DEFINE r == Ended(p)
<1>1. r \in Pages /\ r.save = p.save /\ r.at = "end"
    BY PageFacts DEF Ends, Fits
<1>2. Ends(c, r, f, S)
    BY <1>1, FitsPage DEF Ends
<1>3. GoesOn(c, r, f, S) \/ tcpsrv_server_close(c, r, f, S)
    BY DEF web_int_disconnect
<1> HIDE DEF r
<1> QED BY <1>1, <1>2, <1>3, GoesOnKeeps, CloseKeeps

LEMMA FCloseKeeps ==
    ASSUME NEW c, NEW p, NEW f, NEW S, Ends(c, p, f, S), pcb[c] = "served",
           FClose(c, p, f, S)
    PROVE  IInv'
<1> DEFINE r == [p EXCEPT !.parse = FALSE]
<1>1. r \in Pages /\ r.save = p.save
    BY PageFacts DEF Ends, Fits
<1>2. Fits(c, p, NoFiles, S \ HandlesOf(f), upset')
    BY FitsClosed DEF Ends
<1>3. Ends(c, r, NoFiles, S \ HandlesOf(f))
    BY <1>1, <1>2, FitsPage DEF Ends
<1>4. web_int_disconnect(c, r, NoFiles, S \ HandlesOf(f))
    BY DEF FClose
<1> HIDE DEF r
<1> QED BY <1>3, <1>4, DisconnectKeeps

LEMMA SendsKeeps ==
    ASSUME NEW c, NEW p, NEW f, NEW S, Ends(c, p, f, S), pcb[c] = "served",
           Sends(c, p, f, S)
    PROVE  IInv'
<1> DEFINE r == [p EXCEPT !.at = "send"]
<1>1. r \in Pages /\ r.save = p.save /\ r.at = "send"
    BY PageFacts DEF Ends, Fits
<1>2. Ends(c, r, f, S)
    BY <1>1, FitsPage DEF Ends
<1>3. GoesOn(c, r, f, S)
    BY DEF Sends
<1> HIDE DEF r
<1> QED BY <1>1, <1>2, <1>3, GoesOnKeeps

LEMMA ErrorPageKeeps ==
    ASSUME NEW c, NEW p, NEW f, NEW S, Ends(c, p, f, S), pcb[c] = "served",
           ErrorPage(c, p, f, S)
    PROVE  IInv'
<1> DEFINE g == Popped(f)
           T == S \ First(f)
           r == [p EXCEPT !.parse = FALSE]
<1>1. r \in Pages /\ r.save = p.save
    BY PageFacts DEF Ends, Fits
<1>2. Fits(c, p, g, T, upset')
    BY FitsPopped DEF Ends
<1>3. Ends(c, r, g, T)
    BY <1>1, <1>2, FitsPage DEF Ends
<1>4. FallsOff(g) = {}
    BY WebAssumption DEF WebAssumption, FallsOff, Popped, Invalid, Stub
<1> HIDE DEF r, T, g
<1>5. ASSUME NEW h \in WEBFSOpen(T), NEW idx \in BOOLEAN
      PROVE  Ends(c, [r EXCEPT !.parse = idx], Pushed(g, h), T \cup {h})
    <2>1. Fits(c, r, Pushed(g, h), (T \cup {h}) \ FallsOff(g), upset')
        BY <1>3, FitsPushed DEF Ends
    <2>2. Fits(c, r, Pushed(g, h), T \cup {h}, upset')
        BY <1>4, <2>1
    <2> DEFINE q == [r EXCEPT !.parse = idx]
    <2>3. q \in Pages /\ q.save = r.save
        BY <1>1, PageFacts
    <2> HIDE DEF q
    <2>4. Fits(c, q, Pushed(g, h), T \cup {h}, upset')
        BY <1>3, <2>2, <2>3, FitsPage DEF Ends
    <2>5. Ends(c, q, Pushed(g, h), T \cup {h})
        BY <1>3, <2>4 DEF Ends
    <2> QED BY <2>5 DEF q
<1>6. \/ web_int_disconnect(c, r, g, T)
      \/ \E h \in WEBFSOpen(T), idx \in BOOLEAN :
            \/ Sends(c, [r EXCEPT !.parse = idx], Pushed(g, h), T \cup {h})
            \/ web_int_disconnect(c, [r EXCEPT !.parse = idx], Pushed(g, h), T \cup {h})
    BY DEF ErrorPage, g, T, r
<1>7. CASE web_int_disconnect(c, r, g, T)
    BY <1>3, <1>7, DisconnectKeeps
<1>8. ASSUME NEW h \in WEBFSOpen(T), NEW idx \in BOOLEAN,
             \/ Sends(c, [r EXCEPT !.parse = idx], Pushed(g, h), T \cup {h})
             \/ web_int_disconnect(c, [r EXCEPT !.parse = idx], Pushed(g, h), T \cup {h})
      PROVE  IInv'
    BY <1>5, <1>8, SendsKeeps, DisconnectKeeps
<1> QED BY <1>6, <1>7, <1>8

LEMMA AnswerKeeps ==
    ASSUME NEW c, NEW p, NEW f, NEW S, Ends(c, p, f, S), pcb[c] = "served",
           Answer(c, p, f, S)
    PROVE  IInv'
BY FCloseKeeps, DisconnectKeeps, ErrorPageKeeps, SendsKeeps DEF Answer

-----------------------------------------------------------------------------
(* The actions.                                                            *)

LEMMA InitOK == Init => IInv
<1> SUFFICES ASSUME Init PROVE IInv
    OBVIOUS
<1>1. TypeOK
    BY NoHandles DEF Init, TypeOK, NoPage, Pages, FileLists, Handle
<1>2. Owned
    BY NoHandles DEF Init, Owned
<1>3. ~NoPage.save
    BY DEF NoPage
<1> QED BY <1>1, <1>2, <1>3 DEF Init, IInv, CallbacksOfLinked, SettingsKept

\* What connection c has now fits, whatever happens to upset.
LEMMA NowFits ==
    ASSUME IInv, NEW c \in Conns, NEW u \in BOOLEAN, upset => u
    PROVE  Fits(c, page[c], files[c], stubs, u)
<1>1. page[c] \in Pages /\ files[c] \in FileLists /\ stubs \in SUBSET Handle
    BY DEF IInv, TypeOK, FileLists, Handle
<1>2. Owned => Good(files[c], stubs, Rest(c))
    BY DEF Owned, Good, Rest
<1> QED BY <1>1, <1>2 DEF Fits, IInv

LEMMA OpenServicesKeeps ==
    ASSUME IInv, OpenServices
    PROVE  IInv'
BY DEF OpenServices, IInv, TypeOK, CallbacksOfLinked, SettingsKept, Linked, Owned, HandlesOf

LEMMA CloseServicesKeeps ==
    ASSUME IInv, CloseServices
    PROVE  IInv'
<1>1. /\ \A c \in Conns : /\ conn'[c] = "none" /\ pcb'[c] = "none"
                          /\ page'[c] = NoPage /\ files'[c] = NoFiles
      /\ stubs' = stubs \ UNION {HandlesOf(files[c]) : c \in Conns}
    BY DEF CloseServices
<1>2. TypeOK'
    BY NoHandles DEF CloseServices, IInv, TypeOK, NoPage, Pages, FileLists, Handle
<1>3. SettingsKept'
    BY DEF CloseServices, IInv, SettingsKept
<1>4. upset' \/ Owned'
    <2>1. upset' = upset
        BY DEF CloseServices
    <2>2. ASSUME Owned PROVE Owned'
        <3>1. stubs' = {}
            BY <1>1, <2>2 DEF Owned
        <3> QED BY <1>1, <3>1, NoHandles DEF Owned
    <2> QED BY <2>1, <2>2 DEF IInv
<1>5. NoPage.at = "head" /\ ~NoPage.save
    BY DEF NoPage
<1>6. CallbacksOfLinked'
    BY <1>1 DEF CallbacksOfLinked
<1> QED BY <1>1, <1>2, <1>3, <1>4, <1>5, <1>6 DEF IInv

LEMMA AcceptKeeps ==
    ASSUME IInv, NEW c \in Conns, Accept(c)
    PROVE  IInv'
<1>1. /\ conn[c] = "none"
      /\ conn' = [conn EXCEPT ![c] = "connect"] /\ pcb' = [pcb EXCEPT ![c] = "served"]
      /\ UNCHANGED <<server, page, files, stubs, locked, dirty, upset>>
    BY DEF Accept
<1>2. /\ conn'[c] = "connect" /\ pcb'[c] = "served"
      /\ \A d \in Conns \ {c} : conn'[d] = conn[d] /\ pcb'[d] = pcb[d]
    BY <1>1 DEF IInv, TypeOK
<1>3. TypeOK'
    BY <1>1 DEF IInv, TypeOK
<1>4. CallbacksOfLinked'
    BY <1>2 DEF IInv, CallbacksOfLinked
<1>5. SettingsKept'
    BY <1>1, <1>2 DEF IInv, SettingsKept, Linked
<1>6. upset' \/ Owned'
    BY <1>1 DEF IInv, Owned, HandlesOf
<1> QED BY <1>1, <1>2, <1>3, <1>4, <1>5, <1>6 DEF IInv

\* The file a request opens first fits.
LEMMA FirstFits ==
    ASSUME IInv, NEW c \in Conns, ~upset, upset' = FALSE, NEW o \in FirstFiles(c),
           pcb[c] = "served", locked' \in BOOLEAN
    PROVE  /\ Ends(c, page[c], o[1], o[2])
           /\ o[3] \in BOOLEAN
<1>1. Fits(c, page[c], files[c], stubs, FALSE)
    BY NowFits
<1>2. page[c].parse \in BOOLEAN
    BY DEF IInv, TypeOK, Pages
<1>3. CASE o = <<files[c], stubs, page[c].parse>>
    BY <1>1, <1>2, <1>3 DEF Ends
<1>4. CASE files[c] = NoFiles /\ o = <<NoFiles, stubs, FALSE>>
    BY <1>1, <1>4 DEF Ends
<1>5. CASE files[c] = NoFiles /\ o = <<Pushed(NoFiles, Other), stubs, FALSE>>
    <2>1. Fits(c, page[c], Pushed(NoFiles, Other), stubs, FALSE)
        BY <1>1, <1>5, OtherGood, PushedType, NoHandles DEF Fits
    <2> QED BY <1>5, <2>1 DEF Ends
<1>6. CASE files[c] = NoFiles /\ \E h \in WEBFSOpen(stubs), idx \in BOOLEAN :
              o = <<Pushed(NoFiles, h), stubs \cup {h}, idx>>
    <2>1. PICK h \in WEBFSOpen(stubs), idx \in BOOLEAN :
                 o = <<Pushed(NoFiles, h), stubs \cup {h}, idx>>
        BY <1>6
    <2>2. FallsOff(NoFiles) = {}
        BY WebAssumption DEF WebAssumption, FallsOff, NoFiles, Invalid, Stub
    <2>3. Fits(c, page[c], Pushed(NoFiles, h), (stubs \cup {h}) \ FallsOff(NoFiles), FALSE)
        BY <1>1, <1>6, FitsPushed
    <2>4. Fits(c, page[c], Pushed(NoFiles, h), stubs \cup {h}, FALSE)
        BY <2>2, <2>3
    <2> QED BY <2>1, <2>4 DEF Ends
<1>7. files[c] # NoFiles => o = <<files[c], stubs, page[c].parse>>
    BY DEF FirstFiles
<1>8. files[c] = NoFiles => \/ o = <<NoFiles, stubs, FALSE>>
                            \/ o = <<Pushed(NoFiles, Other), stubs, FALSE>>
                            \/ \E h \in WEBFSOpen(stubs), idx \in BOOLEAN :
                                  o = <<Pushed(NoFiles, h), stubs \cup {h}, idx>>
    <2>1. o \in FirstOpened => \E h \in WEBFSOpen(stubs), idx \in BOOLEAN :
                                  o = <<Pushed(NoFiles, h), stubs \cup {h}, idx>>
        BY DEF FirstOpened
    <2> QED BY <2>1 DEF FirstFiles
<1> QED BY <1>3, <1>4, <1>5, <1>6, <1>7, <1>8

LEMMA RequestKeeps ==
    ASSUME IInv, NEW c \in Conns, Request(c)
    PROVE  IInv'
<1>1. /\ ~upset /\ upset' = FALSE /\ locked' \in BOOLEAN
      /\ pcb[c] = "served" /\ page[c].at = "head"
      /\ page[c] \in Pages /\ ~page[c].save
    BY DEF Request, IInv, TypeOK
<1>2. CASE \E o \in FirstFiles(c) : GoesOn(c, [page[c] EXCEPT !.parse = o[3]], o[1], o[2])
    <2>1. PICK o \in FirstFiles(c) : GoesOn(c, [page[c] EXCEPT !.parse = o[3]], o[1], o[2])
        BY <1>2
    <2> DEFINE p == [page[c] EXCEPT !.parse = o[3]]
    <2>2. Ends(c, page[c], o[1], o[2]) /\ o[3] \in BOOLEAN
        BY <1>1, FirstFits
    <2>3. p \in Pages /\ p.save = page[c].save
        BY <1>1, <2>2, PageFacts
    <2> HIDE DEF p
    <2>4. Ends(c, p, o[1], o[2])
        BY <2>2, <2>3, FitsPage DEF Ends
    <2>5. GoesOn(c, p, o[1], o[2])
        BY <2>1 DEF p
    <2> QED BY <1>1, <2>3, <2>4, <2>5, GoesOnKeeps
<1>3. ASSUME NEW o \in FirstFiles(c), NEW save \in BOOLEAN, NEW reinit \in BOOLEAN,
             LET p == [page[c] EXCEPT !.parse = o[3], !.save = save, !.reinit = reinit]
             IN \/ Answer(c, p, o[1], o[2])
                \/ o[1][1] # Invalid /\ GoesOn(c, [p EXCEPT !.at = "upload", !.parse = FALSE], o[1], o[2])
      PROVE  IInv'
    <2> DEFINE p == [page[c] EXCEPT !.parse = o[3], !.save = save, !.reinit = reinit]
               q == [p EXCEPT !.at = "upload", !.parse = FALSE]
    <2>1. Ends(c, page[c], o[1], o[2]) /\ o[3] \in BOOLEAN
        BY <1>1, FirstFits
    <2>2. p \in Pages
        BY <1>1, <2>1 DEF Pages
    <2>3. q \in Pages /\ q.save = p.save /\ q.at = "upload"
        BY <2>2 DEF Pages
    <2>4. Answer(c, p, o[1], o[2]) \/ GoesOn(c, q, o[1], o[2])
        BY <1>3
    <2> HIDE DEF p, q
    <2>5. Ends(c, p, o[1], o[2]) /\ Ends(c, q, o[1], o[2])
        BY <1>1, <2>1, <2>2, <2>3 DEF Ends, Fits
    <2> QED BY <1>1, <2>3, <2>4, <2>5, AnswerKeeps, GoesOnKeeps
<1> QED BY <1>2, <1>3 DEF Request

LEMMA UploadKeeps ==
    ASSUME IInv, NEW c \in Conns, Upload(c)
    PROVE  IInv'
<1>1. /\ ~upset /\ pcb[c] = "served" /\ page[c].at = "upload" /\ page[c] \in Pages
      /\ upset \in BOOLEAN /\ locked \in BOOLEAN
    BY DEF Upload, IInv, TypeOK
<1>2. PICK save \in BOOLEAN, reinit \in BOOLEAN :
        LET p == [page[c] EXCEPT !.save = @ \/ save, !.reinit = @ \/ reinit]
        IN \/ GoesOn(c, p, files[c], stubs) /\ UNCHANGED <<locked, upset>>
           \/ /\ GoesOn(c, [p EXCEPT !.disk = TRUE], files[c], stubs)
              /\ locked' = TRUE
              /\ UNCHANGED upset
           \/ /\ ~p.disk
              /\ Answer(c, p, files[c], stubs)
              /\ UNCHANGED <<locked, upset>>
           \/ /\ p.disk
              /\ locked' \in BOOLEAN
              /\ upset' = (upset \/ stubs # {})
              /\ Answer(c, p, files[c], {})
    BY DEF Upload
<1> DEFINE p == [page[c] EXCEPT !.save = @ \/ save, !.reinit = @ \/ reinit]
           q == [p EXCEPT !.disk = TRUE]
<1>3. p \in Pages /\ p.save = (page[c].save \/ save) /\ p.at = "upload"
    BY <1>1 DEF Pages
<1>4. q \in Pages /\ q.save = p.save /\ q.at = "upload"
    BY <1>3 DEF Pages
<1>5. \/ /\ GoesOn(c, p, files[c], stubs) \/ GoesOn(c, q, files[c], stubs)
               \/ Answer(c, p, files[c], stubs)
         /\ locked' \in BOOLEAN /\ upset' = upset
      \/ /\ locked' \in BOOLEAN /\ upset' = (stubs # {})
         /\ Answer(c, p, files[c], {})
    BY <1>1, <1>2
<1> HIDE DEF p, q
<1>6. ASSUME NEW u \in BOOLEAN
      PROVE  Fits(c, p, files[c], stubs, u) /\ Fits(c, q, files[c], stubs, u)
    BY <1>1, <1>3, <1>4, NowFits DEF Fits
<1>7. CASE /\ GoesOn(c, p, files[c], stubs) \/ GoesOn(c, q, files[c], stubs)
                 \/ Answer(c, p, files[c], stubs)
           /\ locked' \in BOOLEAN /\ upset' = upset
    <2>1. Ends(c, p, files[c], stubs) /\ Ends(c, q, files[c], stubs)
        BY <1>1, <1>6, <1>7 DEF Ends
    <2> QED BY <1>1, <1>3, <1>4, <1>7, <2>1, GoesOnKeeps, AnswerKeeps
<1>8. CASE /\ locked' \in BOOLEAN /\ upset' = (stubs # {})
           /\ Answer(c, p, files[c], {})
    <2>1. Fits(c, p, files[c], {}, upset')
        BY <1>6, <1>8 DEF Fits
    <2>2. Ends(c, p, files[c], {})
        BY <1>1, <1>8, <2>1 DEF Ends
    <2> QED BY <1>1, <1>8, <2>2, AnswerKeeps
<1> QED BY <1>5, <1>7, <1>8

LEMMA SentKeeps ==
    ASSUME IInv, NEW c \in Conns, Sent(c)
    PROVE  IInv'
<1> DEFINE p == page[c]
           f == files[c]
<1>1. /\ pcb[c] = "served" /\ p.at = "send"
      /\ locked' = locked /\ upset' = upset /\ locked \in BOOLEAN /\ upset \in BOOLEAN
    BY DEF Sent, IInv, TypeOK
<1>2. Ends(c, p, f, stubs)
    BY <1>1, NowFits DEF Ends
<1>3. CASE GoesOn(c, p, f, stubs) \/ FClose(c, p, f, stubs) \/ tcpsrv_server_close(c, p, f, stubs)
    BY <1>1, <1>2, <1>3, GoesOnKeeps, FCloseKeeps, CloseKeeps
<1>4. CASE EndOfFile(c)
    <2>1. Ends(c, p, Popped(f), stubs \ First(f))
        BY <1>1, <1>2, FitsPopped DEF Ends
    <2>2. GoesOn(c, p, Popped(f), stubs \ First(f)) \/ FClose(c, p, f, stubs)
        BY <1>4 DEF EndOfFile
    <2> QED BY <1>1, <1>2, <2>1, <2>2, GoesOnKeeps, FCloseKeeps
<1>5. CASE Include(c)
    <2>1. PICK h \in WEBFSOpen(stubs) :
            GoesOn(c, p, Pushed(f, h), (stubs \cup {h}) \ FallsOff(f))
        BY <1>5 DEF Include
    <2>2. Ends(c, p, Pushed(f, h), (stubs \cup {h}) \ FallsOff(f))
        BY <1>1, <1>2, FitsPushed DEF Ends
    <2> QED BY <1>1, <2>1, <2>2, GoesOnKeeps
<1> QED BY <1>3, <1>4, <1>5 DEF Sent

\* Closes, errors and polls end a page wherever it is.
LEMMA EndingKeeps ==
    ASSUME IInv, NEW c \in Conns, CloseStarts(c) \/ Error(c) \/ CloseAgain(c)
    PROVE  IInv'
<1>1. /\ pcb[c] \in {"served", "polled"}
      /\ locked' = locked /\ upset' = upset /\ locked \in BOOLEAN /\ upset \in BOOLEAN
    BY DEF CloseStarts, Error, CloseAgain, IInv, TypeOK
<1>2. Ends(c, page[c], files[c], stubs)
    BY <1>1, NowFits DEF Ends
<1>3. \/ tcpsrv_server_close(c, page[c], files[c], stubs)
      \/ tcpsrv_list_delete(c, page[c], files[c], stubs, "none")
      \/ tcpsrv_list_delete(c, page[c], files[c], stubs, "left")
    BY DEF CloseStarts, Error, CloseAgain, WithoutCallbacks
<1> QED BY <1>2, <1>3, CloseKeeps, DeleteKeeps

LEMMA PcbEndsKeeps ==
    ASSUME IInv, NEW c \in Conns, PcbEnds(c)
    PROVE  IInv'
<1>1. /\ pcb' = [pcb EXCEPT ![c] = "none"]
      /\ UNCHANGED <<server, conn, page, files, stubs, locked, dirty, upset>>
    BY DEF PcbEnds
<1>2. pcb'[c] = "none" /\ \A d \in Conns \ {c} : pcb'[d] = pcb[d]
    BY <1>1 DEF IInv, TypeOK
<1>3. TypeOK' /\ CallbacksOfLinked'
    BY <1>1, <1>2 DEF IInv, TypeOK, CallbacksOfLinked
<1>4. SettingsKept' /\ (upset' \/ Owned')
    BY <1>1 DEF IInv, SettingsKept, Linked, Owned, HandlesOf
<1> QED BY <1>1, <1>3, <1>4 DEF IInv

LEMMA NextOK == IInv /\ [Next]_vars => IInv'
<1> SUFFICES ASSUME IInv, [Next]_vars PROVE IInv'
    OBVIOUS
<1>1. CASE OpenServices
    BY <1>1, OpenServicesKeeps
<1>2. CASE CloseServices
    BY <1>2, CloseServicesKeeps
<1>3. ASSUME NEW c \in Conns,
             \/ Accept(c) \/ Request(c) \/ Upload(c) \/ Sent(c)
             \/ CloseStarts(c) \/ Error(c) \/ CloseAgain(c) \/ PcbEnds(c)
      PROVE  IInv'
    BY <1>3, AcceptKeeps, RequestKeeps, UploadKeeps, SentKeeps, EndingKeeps, PcbEndsKeeps
<1>4. CASE UNCHANGED vars
    BY <1>4 DEF vars, IInv, TypeOK, CallbacksOfLinked, SettingsKept, Linked, Owned, HandlesOf
<1> QED BY <1>1, <1>2, <1>3, <1>4 DEF Next

-----------------------------------------------------------------------------
\* The inductive invariant holds of every behaviour.
THEOREM ServerInvariant == Spec => []IInv
BY InitOK, NextOK, PTL DEF Spec

\* Every variable keeps its type: no handle at the last place of the table or
\* behind it (WEBFSOpen).
THEOREM TypeCorrect == Spec => []TypeOK
<1>1. IInv => TypeOK
    BY DEF IInv
<1> QED BY <1>1, ServerInvariant, PTL

\* Handles are neither lost nor shared by pages that end in any way
\* (web_inc_fp, web_inc_fclose, Close_web_conn), as long as no upload runs
\* WEBFSInit under them.
THEOREM NoHandleLost == Spec => []HandlesOwned
<1>1. IInv => HandlesOwned
    <2> SUFFICES ASSUME IInv, ~upset PROVE HandlesOwned
        BY DEF HandlesOwned
    <2>1. Owned /\ stubs \in SUBSET Handle
        BY DEF IInv, TypeOK, Handle
    <2>2. \A c \in Conns : c \notin Linked => HandlesOf(files[c]) = {}
        BY NoHandles DEF IInv, Linked
    <2>3. Linked \subseteq Conns
        BY DEF Linked
    <2>4. \A h \in Stub : h \in stubs <=> \E c \in Linked : h \in HandlesOf(files[c])
        BY <2>1, <2>2, <2>3 DEF Owned
    <2>5. ASSUME NEW c \in Conns, NEW d \in Conns, NEW i \in 1..Depth, NEW j \in 1..Depth,
                 files[c][i] = files[d][j], files[c][i] \in Stub
          PROVE  c = d /\ i = j
        <3>1. files[c][i] \in HandlesOf(files[c]) /\ files[c][i] \in HandlesOf(files[d])
            BY <2>5, HandlesAre
        <3>2. c = d
            BY <2>1, <3>1 DEF Owned
        <3> QED BY <2>1, <2>5, <3>2 DEF Owned, Once
    <2> QED BY <2>4, <2>5 DEF HandlesOwned
<1> QED BY <1>1, ServerInvariant, PTL

\* No pcb keeps a callback of a connection that was freed (tcpsrv_list_delete,
\* tcpsrv_server_close).
THEOREM NoFreedCallback == Spec => []CallbacksOfLinked
<1>1. IInv => CallbacksOfLinked
    BY DEF IInv
<1> QED BY <1>1, ServerInvariant, PTL

\* A save that a page has asked for is never forgotten (webserver_disconnect).
THEOREM SaveNotForgotten == Spec => []SettingsKept
<1>1. IInv => SettingsKept
    BY DEF IInv
<1> QED BY <1>1, ServerInvariant, PTL
=============================================================================
