------------------------------ MODULE FlashCfg ------------------------------
(***************************************************************************)
(* The configuration store of app/web/flash_eep.c as this build has it:    *)
(* FMEMORY_SCFG_BANKS is 1, one flash sector.  A save appends the object   *)
(* behind the others, its header first and then its body; the last object  *)
(* of an id is the one that is read.  When there is no room, the last      *)
(* object of every other id is copied to RAM, the sector is erased and the *)
(* copy is written back.                                                   *)
(*                                                                         *)
(* Sizes are in words and include the header.  A header is one word and is *)
(* written at once or not at all; an erase is complete or did not happen;  *)
(* flash can be read.  Nothing runs between the steps of a save; they are  *)
(* steps because the power may fail, or an allocation, a write or an erase *)
(* may, between any two.  The RAM copy is lost with the power, but it does *)
(* not outlive the call in any case.                                       *)
(***************************************************************************)
EXTENDS Integers, Sequences, FiniteSets

CONSTANTS
  Ids, Values,
  SizeOf,       \* words an object with this value takes: its header and a word or more
  MaxObj,       \* words of the largest object that is saved, its header included
  Bank,         \* words in a sector
  None, Torn

\* The sector holds the largest object for every id: the firmware has nine ids,
\* and its largest object, wificonfig, is some 320 bytes of 4096.
ASSUME FlashCfgAssumption ==
  /\ IsFiniteSet(Ids)
  /\ MaxObj \in Nat /\ Bank \in Nat /\ Cardinality(Ids) * MaxObj <= Bank
  /\ SizeOf \in [Values -> 2..MaxObj]
  /\ None \notin Values /\ Torn \notin Values /\ None # Torn

VARIABLES
  log,      \* the objects in the sector, in the order of their addresses
  pc,       \* where flash_save_cfg is
  req,      \* the object it saves
  buffer,   \* the RAM copy of pack_cfg_fmem
  scan,     \* the object at faddr, in its two passes
  result    \* what the last save returned

vars == <<log, pc, req, buffer, scan, result>>

Objects == [id : Ids, val : Values]
\* An object in flash; end is the address behind it.
Entries == [id : Ids, val : Values \cup {Torn}, size : Nat, end : Nat]

TypeOK ==
  /\ log \in Seq(Entries) /\ buffer \in Seq(Entries)
  /\ pc \in {"idle", "head", "body", "pack", "restore"}
  /\ req \in Objects
  /\ scan \in 1..(IF pc = "restore" THEN Len(buffer) ELSE Len(log)) + 1
  /\ result \in {"none", "ok", "failed"}

Init ==
  /\ log = <<>> /\ buffer = <<>>
  /\ pc = "idle" /\ req \in Objects /\ scan = 1 /\ result = "none"

End(l) == IF l = <<>> THEN 0 ELSE l[Len(l)].end

\* An object put behind the others.
Put(l, id, val, size) ==
  Append(l, [id |-> id, val |-> val, size |-> size, end |-> End(l) + size])

----------------------------------------------------------------------------
\* get_addr_fobj: the last object of an id.
Indexes(l, id) == {k \in 1..Len(l) : l[k].id = id}

\* Mutation: the first object of an id.
FirstIndex(l, id) == CHOOSE k \in Indexes(l, id) : \A j \in Indexes(l, id) : k <= j

LastIndex(l, id) == CHOOSE k \in Indexes(l, id) : \A j \in Indexes(l, id) : j <= k

\* flash_read_cfg
Read(l, id) == IF Indexes(l, id) = {} THEN None ELSE l[LastIndex(l, id)].val

\* get_addr_fobj_save: the object must end before the end of the sector,
\* except in an empty one.
\* Mutation: the size of the new object does not count.
HasRoomForHeader(l, size) == l = <<>> \/ End(l) + 1 < Bank

HasRoom(l, size) == l = <<>> \/ End(l) + size < Bank

----------------------------------------------------------------------------
\* flash_save_cfg.  An object that is stored already is not written again.
SaveSame(o) ==
  /\ pc = "idle" /\ Read(log, o.id) = o.val
  /\ req' = o /\ result' = "ok"
  /\ UNCHANGED <<log, pc, buffer, scan>>

Save(o) ==
  /\ pc = "idle" /\ Read(log, o.id) # o.val
  /\ req' = o /\ result' = "none"
  /\ pc' = IF HasRoom(log, SizeOf[o.val]) THEN "head" ELSE "pack"
  /\ buffer' = <<>> /\ scan' = 1
  /\ UNCHANGED log

\* pack_cfg_fmem, one pass of its loop.
Copied(k) ==
  LET last == log[LastIndex(log, log[k].id)]
  IN  IF log[k].id = req.id \/ Indexes(buffer, log[k].id) # {} THEN buffer
      ELSE Put(buffer, last.id, last.val, last.size)

PackCopy ==
  /\ pc = "pack" /\ scan <= Len(log)
  /\ buffer' = Copied(scan)
  /\ scan' = scan + 1
  /\ UNCHANGED <<log, pc, req, result>>

\* Mutation: the second pass starts where the first one ended.
PackEraseKeepsPlace ==
  /\ pc = "pack" /\ scan > Len(log)
  /\ log' = <<>>
  /\ pc' = "restore" /\ scan' = scan
  /\ UNCHANGED <<req, buffer, result>>

PackErase ==
  /\ pc = "pack" /\ scan > Len(log)
  /\ log' = <<>>
  /\ pc' = "restore" /\ scan' = 1
  /\ UNCHANGED <<req, buffer, result>>

Restore ==
  /\ pc = "restore" /\ scan <= Len(buffer)
  /\ log' = Append(log, buffer[scan])
  /\ scan' = scan + 1
  /\ UNCHANGED <<pc, req, buffer, result>>

WriteHead ==
  /\ \/ pc = "head"
     \/ pc = "restore" /\ scan > Len(buffer)
  /\ log' = Put(log, req.id, Torn, SizeOf[req.val])
  /\ pc' = "body"
  /\ UNCHANGED <<req, buffer, scan, result>>

WriteBody ==
  /\ pc = "body"
  /\ log' = [log EXCEPT ![Len(log)].val = req.val]
  /\ pc' = "idle" /\ result' = "ok"
  /\ UNCHANGED <<req, buffer, scan>>

\* An allocation or a flash operation fails, or the power.
Stopped == pc' = "idle" /\ result' = "failed" /\ UNCHANGED <<req, buffer, scan>>

Stop == pc # "idle" /\ Stopped /\ UNCHANGED log

\* It stops within an object that is written back.
StopInRestore ==
  /\ pc = "restore" /\ scan <= Len(buffer)
  /\ log' = Append(log, [buffer[scan] EXCEPT !.val = Torn])
  /\ Stopped

Next ==
  \/ \E o \in Objects : SaveSame(o) \/ Save(o)
  \/ PackCopy \/ PackErase \/ Restore \/ WriteHead \/ WriteBody
  \/ Stop \/ StopInRestore

Spec == Init /\ [][Next]_vars

----------------------------------------------------------------------------
(* Properties.                                                             *)

\* Nothing is written behind the end of the sector, where the parameters of
\* the SDK begin, and nothing behind the end of the RAM copy: not even after a
\* pack, where pack_cfg_fmem returns an address without testing that the object
\* still fits behind what it copied.
FitsSector == End(log) <= Bank /\ End(buffer) <= Bank

\* What the store would hold if the save in progress were finished.
Meant(i) ==
  IF pc \in {"restore", "body"} /\ i = req.id THEN req.val
  ELSE IF pc = "restore" THEN Read(buffer, i) ELSE Read(log, i)

\* The log is a store by id: a save that returned true replaced its object and
\* no other one, through any number of packs, and a save that did not can only
\* damage what ConfigStore says.
Store == INSTANCE ConfigStore WITH
  store  <- [i \in Ids |-> Meant(i)],
  saving <- req,
  phase  <- CASE pc = "idle" -> "idle"
              [] pc \in {"head", "pack"} -> "begun"
              [] pc = "restore" -> "all"
              [] pc = "body" -> "one"

ImplementsConfigStore == Store!Spec
=============================================================================
