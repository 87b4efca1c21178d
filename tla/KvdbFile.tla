------------------------------ MODULE KvdbFile ------------------------------
(***************************************************************************)
(* The file of libkvdb: kvdb.c 135-295 and 356-443 with header.h.  A put   *)
(* is a sequence of pwrite calls, one action each, and the process may die *)
(* between any two; the next put undoes what a dead one left (recov_backup)*)
(* and a get steps around it (check_backup).  KvdbLock has the lock that   *)
(* makes a put exclude everything else, so a get is an operator on states  *)
(* in which nobody holds it.                                               *)
(*                                                                         *)
(* Memory is an array of 32-bit words, offsets count words after the       *)
(* header, and strings are sequences of non-zero words.  Not modelled:     *)
(* empty strings, and reads past the end of the file (they see zeros).     *)
(***************************************************************************)
EXTENDS Integers, Sequences, FiniteSets

CONSTANTS
  Keys, Vals,   \* the strings that are stored: sequences of words
  NULL,         \* kvdb_get's answer for a key that is not there
  Words,        \* bound: words of file after the header
  MaxPuts       \* bound: calls of kvdb_put

TabLen == 5     \* sizeof(tab): next, key, key_len, value, value_len
BlockLen == 7   \* BLOCK_LEN, the text of a string block; one more word is next
StringLen == BlockLen + 1

ASSUME KvdbFileAssumption ==
  /\ Words \in Nat /\ MaxPuts \in Nat
  /\ \A s \in Keys \cup Vals : s \in Seq(Nat \ {0}) /\ s # <<>>
  /\ NULL \notin Vals

VARIABLES
  mem,    \* the file after the header
  hdr,    \* the header
  put,    \* the kvdb_put in progress: its pc and local variables
  dict,   \* history: the value of the last put that returned, for each key
  half,   \* history: the insertion whose process died, until it is undone
  puts,   \* number of calls of kvdb_put
  torn,   \* history: a put has died where its header does not say what it took
  spoilt  \* history: recov_backup has linked a block after such a death
file_vars == <<mem, hdr, put, dict, half, puts, torn, spoilt>>

Tab == [next : Nat, key : Nat, key_len : Nat, value : Nat, value_len : Nat]
NoTab == [next |-> 0, key |-> 0, key_len |-> 0, value |-> 0, value_len |-> 0]
TabAt(off) == [next |-> mem[off], key |-> mem[off + 1], key_len |-> mem[off + 2],
               value |-> mem[off + 3], value_len |-> mem[off + 4]]
TabWords(t) == <<t.next, t.key, t.key_len, t.value, t.value_len>>
NextAt(off) == mem[off + BlockLen]

\* write_db
Written(off, ws) ==
  [i \in DOMAIN mem |-> IF i \in off .. off + Len(ws) - 1 THEN ws[i - off + 1] ELSE mem[i]]

Idle == [pc |-> "idle"]

FileInit ==
  /\ mem = [i \in 0 .. Words - 1 |-> 0]
  /\ hdr = [head |-> TabLen, tail |-> TabLen, size |-> TabLen + StringLen,
            backup_list |-> [head |-> 0, tail |-> 0, size |-> 0],
            backup_tab |-> NoTab, pos |-> 0, backup_prev |-> 0, backup_flag |-> 0]
  /\ put = Idle
  /\ dict = [k \in Keys |-> NULL]
  /\ half = {}
  /\ puts = 0
  /\ torn = FALSE
  /\ spoilt = FALSE

-----------------------------------------------------------------------------
\* Walks over the file.  Each stops after as many steps as the file can have
\* nodes, for a chain that comes back to itself.

Steps == Words \div TabLen

\* the offsets met from off along a link that is 0 at the last
Walk(off, link) ==
  LET met[n \in Nat] ==
        IF n = 0 THEN off
        ELSE LET at == met[n - 1] IN IF n > 1 /\ at = 0 THEN 0 ELSE link[at]
      len == CHOOSE n \in 1 .. Steps + 1 :
               /\ \A i \in 1 .. n - 1 : met[i] # 0
               /\ n <= Steps => met[n] = 0
  IN  [i \in 1 .. len |-> met[i - 1]]
Ends(w) == Len(w) <= Steps
Nodes(w) == {w[i] : i \in DOMAIN w}
Inside(off, len) == off + len - 1 \in DOMAIN mem

\* the blocks of the string at off, and the text string_cpy and string_cmp find
StringWalk(off) == Walk(off, [b \in Nat |-> IF Inside(b, StringLen) THEN NextAt(b) ELSE 0])
Blocks(off) == Nodes(StringWalk(off))
Text(off) ==
  LET w == StringWalk(off)
      raw == [i \in 1 .. Len(w) * BlockLen |->
                mem[w[((i - 1) \div BlockLen) + 1] + ((i - 1) % BlockLen)]]
      end == CHOOSE e \in 0 .. Len(raw) :
               /\ \A i \in 1 .. e : raw[i] # 0
               /\ e < Len(raw) => raw[e + 1] = 0
  IN  IF Ends(w) /\ \A b \in Nodes(w) : Inside(b, StringLen)
        THEN SubSeq(raw, 1, end) ELSE <<>>

\* the tabs: the first at 0, the last has next = 0 and stands for nothing
TabWalk == Walk(0, [t \in Nat |-> IF Inside(t, TabLen) THEN TabAt(t).next ELSE 0])
LastTab == TabWalk[Len(TabWalk)]
Entries == Nodes(TabWalk) \ {LastTab}
EntryOf(key) == {t \in Entries : Text(TabAt(t).key) = key}

\* slip: without check_backup
ValueNow(t) == TabAt(t).value
\* check_backup and the value _kvdb_get goes to
ValueOf(t) ==
  IF hdr.backup_flag = 1 /\ hdr.backup_tab.key = TabAt(t).key
    THEN hdr.backup_tab.value ELSE TabAt(t).value

kvdb_get(key) ==
  IF EntryOf(key) = {} THEN NULL
  ELSE Text(ValueOf(CHOOSE t \in EntryOf(key) : TRUE))

-----------------------------------------------------------------------------
\* kvdb_put takes the lock and begins with recov_backup.
Start(k, v) ==
  /\ put.pc = "idle" /\ puts < MaxPuts
  /\ put' = [pc |-> IF hdr.backup_flag = 1 THEN "rlist" ELSE "find",
             key |-> k, val |-> v, head |-> hdr.head]
  /\ puts' = puts + 1
  /\ UNCHANGED <<mem, hdr, dict, half, torn, spoilt>>

\* recov_backup: the free list, the tab and the link of the last block used;
\* the header was read once, so head is the one the dead process left
RecoverList ==
  /\ put.pc = "rlist"
  /\ hdr' = [hdr EXCEPT !.head = hdr.backup_list.head, !.tail = hdr.backup_list.tail,
                        !.size = hdr.backup_list.size]
  /\ put' = [put EXCEPT !.pc = "rtab"]
  /\ UNCHANGED <<mem, dict, half, puts, torn, spoilt>>
RecoverTab ==
  /\ put.pc = "rtab"
  /\ mem' = Written(hdr.pos, TabWords(hdr.backup_tab))
  /\ put' = [put EXCEPT !.pc = "rlink"]
  /\ UNCHANGED <<hdr, dict, half, puts, torn, spoilt>>
\* slip: the header is read again after the list is restored
RecoverLinkLate ==
  /\ put.pc = "rlink"
  /\ mem' = Written(hdr.backup_prev + BlockLen, <<hdr.head>>)
  /\ put' = [put EXCEPT !.pc = "rneg"]
  /\ spoilt' = (spoilt \/ torn)
  /\ UNCHANGED <<hdr, dict, half, puts, torn>>
RecoverLink ==
  /\ put.pc = "rlink"
  /\ mem' = Written(hdr.backup_prev + BlockLen, <<put.head>>)
  /\ put' = [put EXCEPT !.pc = "rneg"]
  /\ spoilt' = (spoilt \/ torn)
  /\ UNCHANGED <<hdr, dict, half, puts, torn>>
RecoverNeg ==
  /\ put.pc = "rneg"
  /\ hdr' = [hdr EXCEPT !.backup_flag = 0]
  /\ put' = [put EXCEPT !.pc = "find"]
  /\ half' = {}
  /\ UNCHANGED <<mem, dict, puts, torn, spoilt>>

\* the local variables of alloc_str for the string src
Alloc(p, what, src) ==
  [p EXCEPT !.pc = "alloc", !.what = what, !.src = src]

\* _kvdb_put finds the tab, and start_backup writes the header.  A put does
\* not get here when the list of tabs goes in circles.
start_backup(off) ==
  [hdr EXCEPT !.backup_list = [head |-> hdr.head, tail |-> hdr.tail, size |-> hdr.size],
              !.backup_tab = TabAt(off), !.pos = off, !.backup_prev = 0, !.backup_flag = 1]
Find ==
  /\ put.pc = "find"
  /\ Ends(TabWalk)
  /\ LET found == EntryOf(put.key)
         off == IF found = {} THEN LastTab ELSE CHOOSE t \in found : TRUE
     IN  /\ hdr' = start_backup(off)
         /\ put' = [pc |-> "alloc", key |-> put.key, val |-> put.val,
                    insert |-> (found = {}), cur_off |-> off, cur_tab |-> TabAt(off),
                    old |-> TabAt(off).value,
                    what |-> "value", src |-> put.val, ret |-> 0,
                    flag |-> FALSE, prev |-> 0, cur |-> 0, tail |-> 0]
  /\ UNCHANGED <<mem, dict, half, puts, torn, spoilt>>

-----------------------------------------------------------------------------
\* alloc_str: blocks come from the free list as long as its head is not its
\* tail (flag), then from the end of the file.

get_end(len) == hdr.size
Grown(len) == [hdr EXCEPT !.size = @ + len]

AllocStart ==
  /\ put.pc = "alloc"
  /\ LET flag == hdr.head # hdr.tail
         ret == IF flag THEN hdr.head ELSE get_end(StringLen)
     IN  /\ hdr' = IF flag THEN hdr ELSE Grown(StringLen)
         /\ put' = [put EXCEPT !.pc = "info", !.flag = flag, !.ret = ret, !.prev = ret,
                               !.cur = ret, !.tail = hdr.tail]
  /\ UNCHANGED <<mem, dict, half, puts, torn, spoilt>>

\* the text of one block; src keeps what is left, len is its length or negative
Left == Len(put.src) - BlockLen
Rest == SubSeq(put.src, BlockLen + 1, Len(put.src))
WriteInfo ==
  /\ put.pc = "info"
  /\ LET part == SubSeq(put.src \o <<0, 0, 0, 0, 0, 0, 0>>, 1, BlockLen)
     IN  mem' = Written(put.cur, part)
  /\ put' = [put EXCEPT !.pc = "next"]
  /\ UNCHANGED <<hdr, dict, half, puts, torn, spoilt>>

\* backup_prev is written with the last block, unless the text fills it
NextFree ==
  /\ put.pc = "next" /\ put.flag
  /\ LET cur == NextAt(put.prev)
     IN  put' = [put EXCEPT !.cur = cur, !.pc = IF cur = put.tail THEN "out" ELSE "link"]
  /\ hdr' = IF Left < 0 THEN [hdr EXCEPT !.backup_prev = put.prev] ELSE hdr
  /\ UNCHANGED <<mem, dict, half, puts, torn, spoilt>>
\* the tail is never used: the list is empty now
ListOut ==
  /\ put.pc = "out"
  /\ hdr' = [hdr EXCEPT !.head = put.tail]
  /\ put' = [put EXCEPT !.pc = "next", !.flag = FALSE]
  /\ UNCHANGED <<mem, dict, half, puts, torn, spoilt>>
NextEnd ==
  /\ put.pc = "next" /\ ~put.flag
  /\ put' = [put EXCEPT !.cur = get_end(StringLen), !.pc = "link"]
  /\ hdr' = Grown(StringLen)
  /\ UNCHANGED <<mem, dict, half, puts, torn, spoilt>>

LinkMore ==
  /\ put.pc = "link" /\ Left > 0
  /\ mem' = Written(put.prev + BlockLen, <<put.cur>>)
  /\ put' = [put EXCEPT !.pc = "info", !.prev = put.cur, !.src = Rest]
  /\ UNCHANGED <<hdr, dict, half, puts, torn, spoilt>>
LinkHead ==
  /\ put.pc = "link" /\ Left <= 0
  /\ hdr' = IF put.flag THEN [hdr EXCEPT !.head = put.cur] ELSE hdr
  /\ put' = [put EXCEPT !.pc = "zero"]
  /\ UNCHANGED <<mem, dict, half, puts, torn, spoilt>>
LinkZero ==
  /\ put.pc = "zero"
  /\ mem' = Written(put.prev + BlockLen, <<0>>)
  /\ put' = [put EXCEPT !.pc = "head", !.prev = put.cur]
  /\ UNCHANGED <<hdr, dict, half, puts, torn, spoilt>>

\* the last write of alloc_str, and what _kvdb_put does with the result
AllocEnd ==
  /\ put.pc = "head"
  /\ hdr' = [hdr EXCEPT !.head = IF put.flag THEN put.cur ELSE put.tail]
  /\ put' =
       IF put.what = "key"
         THEN [put EXCEPT !.pc = "newtab", !.cur_tab.key = put.ret,
                          !.cur_tab.key_len = Len(put.key)]
         ELSE LET p == [put EXCEPT !.cur_tab.value = put.ret,
                                   !.cur_tab.value_len = Len(put.val)]
              IN  IF put.insert THEN Alloc(p, "key", put.key) ELSE [p EXCEPT !.pc = "tab"]
  /\ UNCHANGED <<mem, dict, half, puts, torn, spoilt>>

-----------------------------------------------------------------------------
\* A new key: an empty tab at the end, then the entry over the last tab.
NewTab ==
  /\ put.pc = "newtab"
  /\ put' = [put EXCEPT !.pc = "zerotab", !.cur_tab.next = get_end(TabLen)]
  /\ hdr' = Grown(TabLen)
  /\ UNCHANGED <<mem, dict, half, puts, torn, spoilt>>
ZeroTab ==
  /\ put.pc = "zerotab"
  /\ mem' = Written(put.cur_tab.next, TabWords(NoTab))
  /\ put' = [put EXCEPT !.pc = "tab"]
  /\ UNCHANGED <<hdr, dict, half, puts, torn, spoilt>>
WriteTab ==
  /\ put.pc = "tab"
  /\ mem' = Written(put.cur_off, TabWords(put.cur_tab))
  /\ put' = [put EXCEPT !.pc = IF put.insert THEN "neg" ELSE "free"]
  /\ UNCHANGED <<hdr, dict, half, puts, torn, spoilt>>

\* add_free_list: the old value goes behind the tail.
FreeLink ==
  /\ put.pc = "free"
  /\ mem' = Written(hdr.tail + BlockLen, <<put.old>>)
  /\ put' = [put EXCEPT !.pc = "tail"]
  /\ UNCHANGED <<hdr, dict, half, puts, torn, spoilt>>
FreeTail ==
  /\ put.pc = "tail"
  /\ hdr' = [hdr EXCEPT !.tail = CHOOSE b \in Blocks(put.old) : NextAt(b) = 0]
  /\ put' = [put EXCEPT !.pc = "neg"]
  /\ UNCHANGED <<mem, dict, half, puts, torn, spoilt>>

\* neg_backup, and the unlock
Return ==
  /\ put.pc = "neg"
  /\ hdr' = [hdr EXCEPT !.backup_flag = 0]
  /\ dict' = [dict EXCEPT ![put.key] = put.val]
  /\ put' = Idle
  /\ UNCHANGED <<mem, half, puts, torn, spoilt>>

\* The process dies between two writes; its locks go with it.  Recovery will
\* write one link, from backup_prev to the head it finds.  That is right where the
\* first block is still the head and none was taken (the link, backup_prev being
\* 0, falls into a block nobody uses), and where the put changes a value and the
\* header names the last free block it took and, as head, the one after it.
\* Everywhere else the file counts as torn: recovery may link a block to itself
\* or into a text, or leave out blocks of the value an insertion took before its
\* key's (of these deaths it still undoes those before the key takes a block).
Untouched ==
  hdr.backup_prev = 0 /\ hdr.head = TabLen /\ hdr.backup_list.head = TabLen
Linked ==
  /\ hdr.backup_prev # 0
  /\ put.pc \in {"zero", "head", "tab", "free", "tail", "neg"}
  /\ ~put.insert
Die ==
  /\ put.pc # "idle"
  /\ put' = Idle
  /\ half' = IF put.pc = "neg" /\ put.insert THEN {<<put.key, put.val>>} ELSE half
  /\ torn' = (torn \/ (hdr.backup_flag = 1 /\ ~Untouched /\ ~Linked))
  /\ UNCHANGED <<mem, hdr, dict, puts, spoilt>>

Put ==
  \/ RecoverList \/ RecoverTab \/ RecoverLink \/ RecoverNeg \/ Find
  \/ AllocStart \/ WriteInfo \/ NextFree \/ ListOut \/ NextEnd
  \/ LinkMore \/ LinkHead \/ LinkZero \/ AllocEnd
  \/ NewTab \/ ZeroTab \/ WriteTab \/ FreeLink \/ FreeTail \/ Return
Done == put.pc = "idle" /\ puts = MaxPuts /\ UNCHANGED file_vars
FileNext == (\E k \in Keys, v \in Vals : Start(k, v)) \/ Put \/ Die \/ Done
FileSpec == FileInit /\ [][FileNext]_file_vars

-----------------------------------------------------------------------------
FileTypeOK ==
  /\ mem \in [0 .. Words - 1 -> Nat]
  /\ hdr \in [head : Nat \ {0}, tail : Nat \ {0}, size : 0 .. Words,
              backup_list : [head : Nat, tail : Nat, size : Nat],
              backup_tab : Tab, pos : Nat, backup_prev : Nat, backup_flag : {0, 1}]
  /\ dict \in [Keys -> Vals \cup {NULL}]
  /\ half \subseteq Keys \X Vals
  /\ puts \in 0 .. MaxPuts

\* Whichever write of a put was its process's last: until a torn file has been
\* recovered from, whenever the lock is free a get answers with the last value
\* whose put returned.  A put whose process died has not happened, though its new
\* key may show until the next put undoes it (multithread/incre_write.c:35 stops
\* the test when a get answers otherwise).
Durable ==
  spoilt \/
    (put.pc = "idle" =>
       \A k \in Keys : kvdb_get(k) = dict[k] \/ <<k, kvdb_get(k)>> \in half)

\* Between puts, and after recovery, every block has one use, until a torn file has
\* been recovered from: the chain of free blocks runs from head to tail and ends
\* there, and shares no block with a string that is stored, nor do two such
\* strings share one.
FreeBlocks ==
  Nodes(Walk(hdr.head, [b \in Nat |-> IF b = hdr.tail THEN 0 ELSE NextAt(b)]))
OneUse ==
  (put.pc \in {"idle", "find"} /\ hdr.backup_flag = 0) =>
    /\ hdr.tail \in FreeBlocks
    /\ \A t \in Entries, u \in Entries :
         LET of(e) == Blocks(TabAt(e).key) \cup Blocks(TabAt(e).value)
         IN  /\ of(t) \cap FreeBlocks = {}
             /\ t # u => of(t) \cap of(u) = {}
             /\ Blocks(TabAt(t).key) \cap Blocks(TabAt(t).value) = {}
BlocksDisjoint == spoilt \/ (FileTypeOK /\ OneUse)
=============================================================================
