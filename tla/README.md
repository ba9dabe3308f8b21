# A TLA+ model of anybuf

anybuf is an in-memory store for C structs with several indexes per struct
(`abuf/`). Its containers are lock-free and share one memory pool design. This
directory models that code in TLA+, checks the models with TLC and proves the
most important facts with TLAPS. File and line numbers refer to `src/`.

## The system

| part | state | operations | hard behaviour |
|---|---|---|---|
| item pool, `abuf/ab_mem.c` | `free_head` (pointer with a 16-bit ABA count), the blocks | `ab_mem_alloc`, `get_head`, `put_head`, `new_block` | CAS loops on one head; reuse of an item between a load and a CAS |
| epochs, `abuf/ab_mem.c` | `global_epoch`; per thread a local epoch and an active flag; four lists of logically free items | `ab_mem_epoch_enter/leave`, `ab_mem_free`, `epoch_increase`, `epoch_gc` | no locks, a non-atomic scan, a store without a barrier, an unlocked `thread_count` |
| mpool, `abuf/ab_mem.c` | one pool per size class, initialised on first use | `ab_mpool_alloc/free/epoch_enter/leave` | racing initialisation; the set of pools changes between enter and leave |
| thread ids, `abuf/ab_os.c` | a table of at most 100 OS thread ids | `ab_get_thread_id` | reuse of the id of a thread that has exited |
| list, `abuf/ab_list.c` | a chain of nodes with `head`, `tail`, `num` | `put`, `del`, `get` | threads help each other move `tail`; several loads that are not one |
| hash, `abuf/ab_hash.c` | one chain ordered by reversed hash, a table of entries into it | `insert`, `get`, `delete`, resize | deletion in two steps, racing dummies, growing table |
| skiplist, `abuf/ab_skiplist.c` | up to 16 chains, marker nodes | `insert`, `get`, `delete` | insertion and deletion level by level |
| buffer, `abuf/ab_buf.c` | values in the mpool, containers that point to them | `ab_buf_put/get/del` | one value in many containers; roll-back; retries |
| binary JSON, `abuf/ab_jsonbin.c` | a byte buffer | parse, print, append | container lengths that change size |
| JSON path, `abuf/ab_jsonpath.c` | two lists of items | lexer, evaluation, mkdir, set | updates in place shift what follows |

The containers call `ab_mem_alloc` and `ab_mem_free` of their own pool and
bracket every operation with `ab_mem_epoch_enter` and `ab_mem_epoch_leave`. The
buffer calls the containers through the function table of `ab_index.h` and
brackets its own operations with the epochs of the mpool its values live in.
Nothing is persisted and there are no messages: all interaction is through
shared memory, and everything depends on the pool's promise that memory a
thread may still look at is not reused.

What has to be right, part by part:

* epochs: no reuse while a pointer may be left; one collector at a time; a
  collection meets no push; the calls return.
* item pool: an item has one owner; a CAS succeeds only on an unchanged list; no
  block is lost.
* list: a linearizable queue; `num` is right when nobody is at work; no stale
  pointer; deleted nodes come back.
* hash, skiplist: a key is there from its insertion to its deletion and once
  only; a delete has one winner; operations end.
* buffer: a value is in all indexes or in none once its put or delete is over;
  it has one owner; what is copied is not handed out again.
* JSON: what is parsed is printed as it was; a path selects what it means; a
  write changes one value; nothing is written behind the buffer.

## Modules

| module | what it is | models |
|---|---|---|
| `AbReclaim` | abstract specification | the promise of the epoch scheme to its clients |
| `AbEpoch` | detailed specification, inductive invariant | enter, leave, free, increase and gc of `ab_mem.c` |
| `AbEpochProofs` | theorems about `AbEpoch` | |
| `AbFreeList` | detailed specification | the CAS loops on `free_head` and `block_head` |
| `AbFreeListProofs` | theorems about `AbFreeList` | |
| `AbFifo` | abstract specification | the queue a caller of `ab_list.c` sees |
| `AbList` | detailed specification over `AbReclaim` | put, del and get of `ab_list.c` |
| `AbListProofs` | theorems about `AbList` | |
| `AbInduct` | lemmas on induction and recursion over numbers | |
| `AbMap` | abstract specification | the dictionary a caller of `ab_hash.c` sees |
| `AbHash` | detailed specification | insert, get, delete, dummies and resize of `ab_hash.c` |
| `AbHashProofs` | theorems about `AbHash` | |
| `AbOrder` | abstract specification | the ordered index a caller of `ab_skiplist.c` sees |
| `AbSkiplist` | detailed specification over `AbReclaim` | insert, get and delete of `ab_skiplist.c` |
| `AbSkiplistProofs` | theorems about `AbSkiplist`: types and pointers | |
| `AbOrderProofs` | theorems about `AbSkiplist`: order, records and `AbOrder` | |
| `AbBuf` | detailed specification over `AbReclaim` | put, get and del of `ab_buf.c`, one size class of the mpool |
| `AbBufProofs` | theorems about `AbBuf`, `AbBufCmp` and `AbJsBuf` | |
| `AbBufCmp` | operators | the comparison of keys in `ab_buf.c` |
| `AbJsBuf` | operators | the binary form of JSON: varints, items, lengths written afterwards |
| `AbJsText` | operators | the lexer, strings and numbers of `ab_jsonbin.c` |
| `AbJsBin` | operators | the parser and the printer of `ab_jsonbin.c` |
| `AbJsPath` | operators | the lexer, parser and evaluation of paths in `ab_jsonpath.c`, and mkdir |
| `AbJsDoc` | specification of a client | `ab_json_parse`, `ab_json_print`, `ab_json_parse_path`, `ab_json_from_...` |
| `MC...` | adds what TLC needs to the module of that name: a symmetry set, a hash per key, the keys a list is loaded with, texts and paths | |

The concurrent modules form three layers. `AbEpoch` implements `AbReclaim`;
`AbList` and `AbSkiplist` use `AbReclaim` (`Pool!Publish`, `Pool!Retire`, ...)
and implement `AbFifo` and `AbOrder`; `AbHash` implements `AbMap` and needs no
pool promise, because the code never gives a node back that was linked.
`AbBuf` stands on top: it takes the indexes as what `AbMap`, `AbOrder` and
`AbFifo` say of them and its values from a pool that keeps `AbReclaim`. So each
layer is checked against what the one below promises, and the pool is checked,
and proved, to keep its promise. JSON is sequential: its functions are operators,
and `AbJsDoc` is a client that calls them. A `Mutant:` comment marks a changed
copy of a definition that the specification does not use; it shows that the
property it belongs to notices the change.

### AbEpoch

`thread_count`, `global_epoch`, `local_epoches`, `active_flags` and `logic_tick`
are the fields of `ab_mem_epoch_t` and `ab_mem_t`. An item's `place` says which
list it is in or who has it; an item `x` with `place[x] = "limbo"` is in
`epoch_head[stamp[x] % 4]`. `pc[t]` names the next access of thread `t` to shared
memory, and there is one action per access. `logic_tick` starts anywhere because
`ab_mem_init` does not set it; it is kept modulo 256, called `TickPeriod`.

The client is any container that follows the protocol: inside, it may link free
items and unlink linked ones. `inside` and `mayHold` are history variables: who
is between enter and leave, and who was when an item was unlinked. A thread in
`Careless` may return from a call without leaving, as `ab_list_get` does on an
empty list.

Memory is x86-TSO, which `CPU_BARRIER` in `ab_os.h` (an `mfence`) targets. Only
the store to `local_epoches` (ab_mem.c:330) is read by others with no barrier
after it, so only it has a store buffer (`unflushed`, `Flush`). A thread's locked
instructions wait for its buffer. The store that clears the flag may be delayed
too; that is the same as a thread that leaves later, and needs no buffer.

### AbFreeList

`free_head` and each `next` field are records of a count and a pointer.
`AbaIncr` is the macro `ABA_MASK_INCR`. A `next` field that holds a `mem_id`
(`MemId > 0`) is a null pointer here: it is never the address of an item. The
caller that holds an item may give it back; the time it spends in an epoch list
is part of the time it is out. `free_num` is written and never read, and is left
out. Two history variables name what a new block does to the count: `reset[t]`
says that one was linked since `t` read the head, `astray` that a CAS has then
put in a `next` that was not the item's. `CasAccurate` and `OnePlace`, and with
it the half of `NothingLost` that is about items, except these cases.

### AbList and AbFifo

`AbFifo` has a sequence and, per call, the set of fronts the queue has had since
the call began. A call that changes nothing may return any of them, which is
exactly linearizability for such calls.

`AbList` has the code's pointers and one action per access. A put takes effect
in the queue when `tail` moves over its node, not when the node is linked: a
delete that finds `head = tail` answers "empty" even if a node is linked behind.
The thread that moves `tail` may be another one, so `CallOf` derives whether a
put is done from the list itself.

The fields are plain C variables and `CMakeLists.txt` asks for `-O2`. gcc drops
the second look at `tail` and `head` (ab_list.c:113, 150), uses one load of
`head` in `ab_list_get`, and loads `tail` after `head->next` in `ab_list_del`.
The model has both behaviours as a choice in each case (`PutGoOn` with a stale
tail, `DelTail` and `DelNext` in either order, `GetAgain`). The ABA counts in
node addresses are left out: the epochs alone must make reuse safe.

### AbHash and AbMap

All nodes are on one chain ordered by hash number: the hash with its bits
reversed, made odd for the node of a key. `entrys` holds, per bucket, the dummy
at which its part of the chain begins. `ab_hash_entry_insert` calls itself for
the parent bucket; `stack[t]` holds the calls that wait, each with its bucket and
the dummy it has made, and `Subject(t)` is the node that is being linked: the
topmost dummy, or the node of the call. The three searches
(`find_ge`, `find_key`, `find_node`) are `InsWalk`/`InsFound`/`InsDuplicate`,
`KeyWalk`/`KeyNone`/`KeyFound` and `NodeWalk`/`NodeFound`/`NodeNone`, one step per
`next` field that is read.

Three things are one step although the code makes several accesses, because
nobody can tell. The loop that sets the delete flag ends with a CAS on what it
has just read. A node is filled while it is private. A block of entries starts
out as NULL entries, so it does not matter when it is allocated or who wins.
Locals are reset when the code does not use them any more.

`AbMap` says what the code keeps of a dictionary, which is less than
linearizability. A delete takes effect in two steps, `DeleteBegins` when the flag
is set and `DeleteEnds` when the node is unlinked. In between another delete of
the key answers NULL, and yet a get that begins after that answer still finds
the value, and an insert still fails. `dict` and `seen` are history variables:
`dict` is changed by the CASes on nodes only, and `ChainIsDict` compares it with
what is on the chain; `seen[t]` collects the states of the key during a call.
`AbMap` is promised for keys with different hash numbers; with equal ones a
delete can fail after it has begun (see the findings). The hash number of a key
has its lowest bit set, where the highest bit of the hash has gone: two hashes
that differ in that bit only have the same number.

### AbSkiplist and AbOrder

A node has `key`, `incr_key`, `lvl` and three flags, `marker`, `deleting` and
`inserting`, the bits of the code's flag word, which one CAS changes together.
`loc[t]` holds the locals of a call: `prev` and `fwd` are the arrays of the same
names, `x` and `m` the node and its marker, `lvl` the level the call is at. An
insert links its node from the lowest level up. A delete takes the flag, and then
puts a marker behind the node on each level from the top down, so that nothing
can be linked there any more, and unlinks node and marker together. The two
searches (`find_ge` and `find_equal`) are walks of one step per `next` field.

The two pools of a list are entered and left together and are one pool here.
`NoStalePointer` is about the pointers the code follows: `prev`, `x`, `m` and the
node a walk is at, and what stands behind the nodes that are on the list. `fwd` is
compared and stored where the comparison holds, and never followed. A
loop that repeats a CAS on one word until it succeeds (`incr_height`, `incr_key`)
is one step. A node is filled while it is private. `Init` is what
`ab_skiplist_init` leaves, with the records that one thread has inserted before
the calls begin: `Loaded` and the operators above it place them and are no code.

`AbOrder` knows the records of the list and whether each one is coming (its
insert is not over: it can be found but not deleted), there, or going (a delete
has chosen it: it can be found but not deleted again). A call that changes nothing
may answer anything that was right at some moment of the call. `recs` and `seen`
are the history variables that stand for it; `ListIsRecs` says what the lowest
level and the flags must have to do with them and with the calls at work.

Without duplicates `AbOrder` promises only that the key had no record at some
moment of an insert. The code checks once, before its first CAS
(ab_skiplist.c:158), and searches again without checking when it loses it, so
two inserts of a key at once can both succeed.

### AbBuf

`index[i]` is the set of entries of the i-th index, `[key, incr, val]`, and one
call of a container is one action: `Found` and `Taken` are what its get and del
find. The three kinds are the hash ("uniq"), the skiplist with duplicates
("dupl") and the list. A value's item is in `state` and `guards` of `AbReclaim`;
`key`, `incr` and `updating` are the fields the code keeps in it. `at` is the
index a loop has come to, and `from` and `num` are `incr` and `i` of
`ab_buf_get`, or, in a put, the index that refused.

`incr` of a fresh item is `Garbage`: the code does not clear it, and the
skiplist writes it only after the node is linked, so that another thread can
read it before (`PutIncr` is a step of its own). The size class is made at its
first use (`Make`, `Made`, and `MakeFails` when the system has no memory);
a call that begins before does not enter it.

The history variables serve the properties. `undone` and `astray`: whether a
delete won the mark of a value after its put had taken it back (see below).
`late`: whether a delete in a list won the mark of a value without being in the
class (see below). `got`, `due` and `raced`: what a get of several values has returned, what it had
to return, and whether it met a value whose `incr` was not written yet.
When a delete that went astray has freed a value, its put would free it again;
the model ends there, since the pool promises nothing then.

`AbBufCmp` has `ab_buf_cmp` as operators on numbers and sequences of characters,
with the conversion of a difference to an `int`.

### AbJsBuf, AbJsText, AbJsBin, AbJsPath and AbJsDoc

A text is a sequence of character codes, a document a sequence of cells, one per
byte, and a pointer an index. Base and width of numbers are constants: a varint
has `VarBase` instead of 128, so that lengths of one and of two digits occur in
documents of twenty cells; an unsigned long is below `NumWord`, and a double
is a whole number of halves. An expression whose result is no whole number of
halves (1/3, a quotient by zero) is not followed, and a remainder by zero is
undefined in C: both end the path with `undefined`.
The recursive functions of the code are recursive
operators with the same errors in the same order; a return code is a string.
What the code would read behind the end of its input is modelled as reading a
zero, and a loop that would not end is described below, not entered by the
instance.

`AbJsDoc` types a text piece by piece, has it parsed, builds a path segment by
segment and writes values at paths. The properties compare what the code
makes of the text and the path with the pieces and segments it was made of:
`ParseExact` with a grammar, `Selects` with the meaning of each segment.
Each new segment (`Extend`) calls `ab_json_parse_path` on the path as a whole;
`did` records the answer and the set that was selected.
Where the code is known to mean something else is said in the definitions
`Plain` and `Sound`, case by case; `NothingLost` is about all documents.

## Runs

| run | question | instance | result |
|---|---|---|---|
| `epoch` | is reuse safe, is there one collector, does `IInv` hold, is `AbReclaim` implemented | 2 threads (both may return without leaving), 3 items, an increase at every free, 9 epochs | holds |
| `epoch_live` | does every `ab_mem_free` return, does `thread_count` settle in spite of its race | 2 threads in a new pool, 3 items that start in the container | holds |
| `epoch_race` | is there one collector per list in a new pool | 2 threads, a new pool | violated |
| `free_list` | one owner per item, accurate CAS, no block lost | 3 threads, 2 blocks of 2 items, 7 calls, items that hold a `mem_id` | holds |
| `list` | the list is a queue, no stale pointer, `num`, calls return, deleted nodes can come back | 2 threads, 3 nodes, 2 puts | holds |
| `hash` | order of the chain, chain equals dictionary, `num`, load limit, `AbMap` implemented | 2 threads, 2 keys of different hash, 2 inserts, up to 4 buckets | holds |
| `hash_live` | inserts and deletes return | 2 threads, 2 keys, 2 inserts, a table of two buckets that does not grow, no gets | holds |
| `hash_collide` | does `num` fit when nobody is at work, with colliding keys | the same, both keys with one hash | violated |
| `skiplist` | levels ordered and nested, list equals records, no stale pointer, `num`, `AbOrder` implemented | 2 threads, 2 levels; any two calls on a list loaded with 2 records, with and without duplicates; any three calls on one key of an empty list without | holds |
| `skiplist_live` | inserts and deletes return | 2 threads, two calls on one key that has two records | holds |
| `buf` | one owner per value, all indexes or none, the assertion, no value used after reuse, get of several values, calls return | 2 threads, any two calls of up to two values each; hash and skiplist in both orders, a list alone; no value, one and two put before | holds |
| `json` | parser exact, print and parse again, paths select what they mean, a write changes one value and is found, no write behind the buffer | every text of at most six of eleven pieces, five larger documents, every path of two of nine segments, two writes, buffers of 23 and 60 cells | holds |

### Bounds

* `MaxEpoch` bounds `global_epoch`: nothing is unlinked in a later epoch. Four
  epoch lists come round after four epochs, so nine epochs use every list twice.
* Three items let one item be drained while one is pushed and one is in the
  container. Fewer would never be collected: an increase needs a free of its
  own, and an item is drained at the third increase after it was filed. An
  increase at every second free needs five, and is left to the proofs, which
  hold for any `TickPeriod` and any number of threads. `Linked0`, the items that
  start in the container, saves the states in which it is filled.
* `MaxCalls` bounds the calls of alloc and put in `AbFreeList`. With `CntMod` not
  below it no count comes round between a load and its CAS, which is the
  assumption under which `CasAccurate` holds and is proved; the 16-bit count of the code comes
  round after 65536 operations that fall between the two. With seven calls all
  items of both blocks are in use and some come back, and a CAS can go astray.
* `MaxPuts` bounds the puts of `AbList`; deletes and gets are not bounded. Two
  puts with three nodes (one of them the dummy) let a put wait behind one that
  has not moved `tail`, and a node come back to the pool and be used again.
* `MaxInserts` bounds the inserts; deletes and gets are not bounded. Two inserts
  are enough for two threads to make the dummies of one bucket at once, for a
  resize beside an insert of the same key, for a second life of a deleted key and
  for a dummy to be linked behind a node that is being deleted. They are too few
  for a stale value of `size` to shrink the table; `TableGrows` is proved for any
  number. `MaxNodes` is large enough for every node and dummy these calls
  allocate. `ENTRYS_PER_BLOCK = 2` gives a table of four buckets, with
  two generations of parents; hashes have four bits. With `ENTRYS_PER_BLOCK = 1`
  the table is full from the start and keeps its two buckets, which leaves the
  resizes out of `hash_live` and `hash_collide`.
* `Starts` lists the instances of `AbSkiplist`: duplicates or not, the keys in
  use, the records loaded, and the number of calls. Two calls on two loaded
  records, in both modes: every pair of calls meets in every interleaving, at any
  heights. Three calls on one key of an empty list without duplicates: two
  inserts can make two records of it, and a delete meets them.
* `MaxCalls` bounds the calls of `AbBuf`: two. What longer histories would bring
  is in the initial states, buffers with up to two values. Two items are few on
  purpose: the pool runs out and items are handed out again. Longer histories,
  more threads and more items are left to the proofs. `MaxFails` bounds
  how often a class cannot be made.
* In `skiplist` `MaxHeight` 2 is what an insert or delete needs to be between
  levels; three levels add no new kind of step, and the proofs hold for any
  height. `skiplist_live` has one key and duplicates only, where deletes wait for
  each other.
* `MaxPieces`, `MaxSegs` and `MaxSets` bound the documents, paths and writes of
  `AbJsDoc`. With `VarBase` 16 and a buffer of 23 cells some documents do not
  fit, some fit before a length has grown and not after. `PrintBufferSize` 4
  lets the print buffer grow several times.
* `NumMod` stands for 2^64: `num` wraps below zero in the same way.

### Fairness

Every fair specification has weak fairness on `Work(t)`, the steps of a call
that has begun, for every thread: the operating system keeps scheduling it.
`AbEpoch` adds weak fairness of `Flush(t)`: the hardware empties store buffers.
No call is fair, so nobody is assumed to call anything, and the pool is not
assumed to reclaim. `CountSettles` has its assumption, threads that keep coming
back, in the formula. `AbBuf` stops when the assertion fails.

A loop that waits for another thread (a delete in the skiplist for its
predecessor, a delete in the buffer for the mark, a put for the class that
another thread makes) ends because that thread is fair too: `CallsReturn` of
`AbSkiplist` and `AbBuf` is that claim. A hash or a list inside `AbBuf` answers
in one step, which the liveness runs of those modules justify.

Weak fairness is enough for the CAS loops although a turn can be lost again and
again: a turn is lost only to a CAS of somebody else that succeeded, and these are
finitely many within the bounds. That is the code's lock freedom. It says
nothing of wait freedom, which the code does not have.

Deadlock is not checked where calls are bounded: with all calls used up the
callers stop (`free_list`, `skiplist`, `skiplist_live`, `buf`, `json`).

## What the runs found

* **`thread_count` (ab_mem.c:302).** It is raised by an unlocked test and a plain
  store. Threads 0 and 1 can both find it too small, and the later store of 1
  undoes the store of 2. A scan then overlooks an active thread, the epoch
  advances past it, and two threads drain the same list, although the comment at
  ab_mem.c:375 says only one does. It heals when the thread enters or leaves
  again (`epoch_live`). Hence the proofs assume that every thread has been
  counted.
* **A delete among colliding keys gives its node up (ab_hash.c:275).** The search
  for the node before the one to unlink stops at the first node with the same
  hash number. If a delete has set its flag, loses its first CAS and another key
  with that number comes first, it answers NULL and its node stays: gets still
  find the key, nobody can delete it or insert it again, and `num` stays above
  zero, against test_ab_hash.c:238. Hash numbers are equal for equal hashes and
  for hashes that differ in the highest bit only, which ab_hash.c:345 overwrites.

## What is known besides

Facts met while modelling that no run reports as violated. Each is a named
exception in the model, or outside the instance. They are stated here because
the properties are only as strong as their exceptions.

* **`new_block` resets the ABA count (ab_mem.c:281).** `free_head` becomes the
  plain address of the block, with count zero, against ab_mem.md:22, so that a
  CAS of a sleeping `get_head` can succeed on a changed list and put an item
  into the list that somebody holds: the exceptions `reset` and `astray` of
  `CasAccurate` and `OnePlace`. Without them the run `free_list` would fail, with
  three threads after six calls.
* **`ab_list_get` does not leave (ab_list.c:191).** On an empty list the active
  flag stays up until the thread's next call, and what others delete meanwhile
  does not come back to the pool (ab_mem.md:15): the exception in `Released`.
  Safety survives: in the run `epoch` every thread may do so.
* **Uniqueness in the skiplist (ab_skiplist.c:158)**: see `AbOrder`. Once two
  racing inserts have put a key in twice, both records have `incr_key` 0 and a
  search stops at the first. A delete that has flagged the second spins
  (ab_skiplist.c:248 and the loops after it) until somebody deletes the first.
  `CallsReturn` of `AbSkiplist` therefore speaks of lists with duplicates.
* **A delete that comes while a put is taken back (ab_buf.c:239).** The delete
  has read the value from an index, the put is refused by a later one, takes the
  value out again and lowers the mark; the delete's CAS then succeeds on a
  value that is in no index. It deletes what has the same key now, or the
  assertion (249) fails. It takes a buffer whose unique index is not its first one:
  the exception `astray` of `OneOwner` and `ValueWhole`.
* **A list hands out its front (ab_buf.c:241, ab_mem.c:475).** A delete that began
  before the first put is not in the class that is made meanwhile. It can read
  the front of a list, lose it to another delete, and win the mark of the same
  item when it has been put again, at the end: its `del` then takes the front,
  another value, out of the list, and frees the one at the end, which stays in
  the list. That takes five calls: the exception `late` of `ValueWhole` and
  `NoStaleValue`. In a hash or a skiplist the same delete takes out what it
  has marked, under the key it has now.
* **A list beside other indexes (ab_buf.c:144, 241).** For the same reason, when
  a value is taken back, or deleted by a key of another index, it is the front
  that leaves the list, whatever value that is. The properties of `AbBuf` are stated
  and checked for lists alone.
* **`incr` is read before it is written (ab_buf.c:195)**: a get of several values
  can then skip or repeat values, the exception `raced` of `MultiGet`. A get of
  several values from a hash returns the same one again, as the hash ignores
  `incr`; one from a list returns the front again.
* **A call that begins before the first put (ab_mem.c:475)** is not in the epoch
  of a class that is made meanwhile: the exception in `NoStaleValue`. The same
  holds for a put that could not make the class on entering and could afterwards.
* **Retries and failures without leaving (ab_buf.c:239, 128)** are harmless: the
  thread enters again with its next try or call.
* **Keys of four and eight bytes (ab_buf.c:328)** are compared by an `int`:
  `WideKeysTurn`, `LongKeysCollide`. Two values without the key of a `type_jspath`
  index (372) both come after each other.
* **The end of a container (ab_jsonpath.c:192)** is taken to be the end of the
  document: members of one that is not at the end are followed by what stands
  behind it, and an update then corrects the wrong parents. `Closed` in
  `AbJsDoc`.
* **Lengths of enclosing containers (ab_jsonpath.c:243)** all grow by the same
  amount. If one needs another digit for it, those around it are too small, and
  the call answers ok: `wide`.
* **Slices and indexes.** A slice ends only at a member it would take (`[0:3:2]`
  ends nowhere); a step of zero leaves the set as it was; an empty number is an
  error though the grammar in `ab_jsonpath.c` allows it; indexes are counted over
  all selected arrays together (1128). `Plain`.
* **Filters.** With nothing to scan the parser turns for ever (`{"a":[]}` and
  `$.a[?(@.b==1)]`); a lone `=`, `!`, `|` or `&` does the same in the lexer; a
  container as an operand is an error; a remainder by zero is not caught.
* **mkdir.** A path that leads through a scalar appends to it and answers ok; an
  index that is missing appends one unnamed member whatever its number; a failure
  after members were added leaves `jsbin_len` as it was while the root's length
  has grown; `from_value` has changed the type when it finds no space.
* **Numbers and strings.** `-n` with n beyond 2^63 becomes positive; `1.0` is
  printed as `1`; a string with `\u0000` is printed up to it; a `\u` escape that is
  cut short is accepted (ab_jsonbin.c:280).

## Proofs

`AbEpochProofs` proves for any number of threads and items, any `TickPeriod` and
any `MaxEpoch`, with any threads careless:

* `TypeCorrect`: the types, with no assumption beyond the declared ones;
* `Invariance`: `Spec => []IInv`;
* `ReuseIsSafe`, `OneCollector`, `DrainIsUndisturbed`: the safety properties of
  the run `epoch`, and `LagIsBounded`, the conjunct `EpochLag` of `IInv`;
* `KeepsPromise`: `AbEpoch` implements `AbReclaim`.

All but the first need `AllCounted`, `ThreadCount0 = N`: without it the properties
are false, as `epoch_race` shows.

The argument. A collection follows a scan that saw every active thread in the
current epoch `e` (`ScanInv`), and the CAS to `e + 1` succeeds only if no other
increase came between. The collector itself entered in `e`, so while it
collects the epoch cannot become `e + 2` (`EpochLag`, `CollectInv`): it is alone,
and its index is exact. It drains the list of `e + 2`, that is, of `e - 2`.
Everyone who may hold an item filed under `e - 2` entered no later than that
(`ItemInv`, `FileInv`), while everyone inside entered in `e` or `e + 1`: nobody
holds it. A push is filed under an epoch that is at least the pusher's
snapshot and so is one of `e` and `e + 1`, never the drained list.
The delayed store costs nothing: a visible local epoch is the snapshot or
older (`FlagInv`), and a scan that reads an old one only gives up.

`NoReuseWhileHeld` is not inductive by itself. The invariant adds what scans have
seen, where the items in hand are, and how old their holders can be. `TypeOK` is
proved first, since every other step uses it; then there is one lemma per
action. The five frame lemmas say that a part of the invariant survives any step
that leaves the variables it is about alone.

`AbFreeListProofs` proves, for any threads, any number and size of blocks and any
number of calls:

* `ListTyped` and `NoneLost`, the properties `TypeOK` and `NothingLost`;
* `CountGuards`, the property `CasAccurate`, if counts do not come round
  (`CountsLast`: no more calls than there are counts; in the code, fewer than 2^16
  successful CASes between the load of the head and the CAS of one get);
* `OnlyBlocksMislead`: under the same assumption, the first CAS that goes astray is
  one whose thread read the head before a block was linked.

The argument. The free list is a sequence of items, the line, whose existence
`PlaceInv` states; `OnListIsLine` shows by induction that the walk of `OnList` finds
just its items. An item of a linked block is in the line, or out with
one caller, or in the hands of one thread that puts it back (`Somewhere`,
`InHands`); a block that is not linked yet is known to one thread (`Private`). So a
put links an item that nobody else has to what is the head at its CAS, whether
or not the head came back meanwhile: puts and blocks need no count. A get does.
`CountInv` bounds the turns of the count since a thread has read it by the
calls that are over: each change of the count but a block's ends a call. A
reader that finds its count again thus finds a head that has not moved
(`Unmoved`), and the `next` field of the front of the line is written by nobody.

`AbListProofs` proves, for any finite number of threads, any items, any number of
puts and any pool that keeps the promise of `AbReclaim`:

* `TypeCorrect`, and with it that no `next` of NULL is read;
* `NothingStale`: no pointer that is followed names a node that was handed out
  again;
* `WholeQueue`: `tail` is at most one node behind, nodes of the queue are not in
  the pool, and `num` is the length but for the calls between their CAS and their
  update of it, modulo the word it is kept in;
* `ListIsFifo`: `AbList` implements `AbFifo`.

The argument. A thread reads `next` of a node that was unlinked meanwhile, and
what it finds there may be unlinked too. It is safe because nodes are unlinked
in the order of the queue: whoever was inside when a node went was inside when
the next one did, unless it is still there (`Leads`). So what a thread holds is
either linked or guarded by the thread itself (`Holds`), a `next` that was not
NULL stays as it is and `tail` and `head` only move on (`Knows`), and a node that
is not linked yet is known to nobody else (`Private`). The queue itself is a
sequence of nodes whose existence is part of the invariant (`LineInv`); the
operator `Chain`, which computes it, is shown equal to it by induction. The put
that appends to the sequence is the step that moves `tail`, by whatever thread;
`Saw` ties what a call has read to the fronts the queue has had since it began.
`Counted` adds, for `num`, what the calls between a CAS and the count owe.
Each step of the code is then one step of the queue or none.

`AbHashProofs` proves, for any finite number of threads, any keys, number of inserts
and size of the table:

* `TypeCorrect` and `TableGrows`, the property `LoadFollows`;
* `SplitOrdered` and `ChainExact`, the properties `SplitOrder` and `ChainIsDict`,
  for any hash function;
* `IndexIsMap`: `AbHash` implements `AbMap`, if no two keys have the same hash
  number (`NoCollision`). Without it the refinement is false: the run
  `hash_collide` shows the delete that begins and then fails.

The argument. The chain alone does not say what a sleeping thread may still
find, since it may stand on a node that was unlinked long ago. `Whole` says that
there are a set `C` of nodes on the chain, a set `D` of those that were unlinked,
and for each the moment it was linked (`r`). `Ahead` orders them by hash number
and then by moment; every `next` goes up in that order, nodes of `C` leave out
none of `C`, and nodes of `D` only some in front of the hash number they lead to
(`Chained`). The CAS that links proves its place because it finds the flag of the node in
front unset and its `next` unchanged (`LinkChained`); the one that unlinks because
the flag of the node it takes out is set, so that nothing is linked behind it any
more (`UnlinkChained`). `Owns` says what is private to a call, the dummies on its
stack above all, and `Apart` that no two calls have the same one; `Seeks` that
a search has not gone past its place. For the answers each call has a set `f` of
nodes that were on the chain at some moment of it: from them it can reach
only such nodes (`Met`), and where it stands is one of them (`Here`). A search that
ends without the key thus proves that it was away at some moment, even if
it ran over unlinked nodes. `Chain` is shown equal to `C` by two inductions. The
count follows from the dictionary, as in the list. `ResizeInv` is the part about
resizes: the limit is at most half the size, and what a resize has read of
`size` the second time may be old but is not above it, since `size` only grows.

Two things make these proofs possible without the induction theorems that take an
operator: `AbInduct` proves the least-number principle once and states induction
with the property as a set (`NatSetInduction`, `SpanInduction`), and `NatRecursion` says
that a function defined by recursion over numbers satisfies its equation. They
are used for `Chain` in both modules, for `TwoTo` and for `Reverse`.

The assumptions are those named in the modules. That there are finitely many
threads is needed to count them. `4 * BUCKET_MAX <= TwoTo[Bits]` keeps the numbers of
buckets below the highest bit of a hash, so that those of dummies are even; it
holds for 4094 entries per block and 32 bits. The proof is about the table as the
model has it, one entry for each bucket: what the code does with buckets beyond the
last block of `entry_blocks` is left out of the model.

`AbSkiplistProofs` proves, for any threads, keys, calls and height, any finite set
of nodes and any pool that keeps the promise of `AbReclaim`:

* `TypeCorrect`, the types;
* `NotStale`, the property `NoStalePointer`.

`AbOrderProofs` goes on from its invariant `IInv` and proves, with and without
duplicates:

* `LevelsAreWhole`, the property `LevelsWhole`;
* `ListIsRecords`, the property `ListIsRecs`, for any modulus of `num`;
* `OrderImplemented`, the property `OrderSpec`: `AbSkiplist` implements `AbOrder`.

The argument. A level is the least set that holds what stands behind the head and
behind its own nodes, markers skipped (`Least`); `OnIsLeast` shows that the walk of
`On` finds just this set. `LeastIn` and `LeastOut` say what a level is after a node was
put in or taken out, as long as no two of its nodes have the same one behind them
(`OneBehind`), and `ListStays` that it stays if what is behind its nodes does. So an
insert or a delete changes one level by one node, and no other. The nodes of a
call are its own: one thread has taken the flag `deleting` of a node, one has
`inserting`, and a marker belongs to the delete that made it (`Apart`); `PutOK`,
`TakeOK` and `MarkOK` say on which levels such a node is at each place of the code. A CAS
that finds a marker behind its predecessor fails; hence nothing is linked behind a
node that is being taken out of a level, and what the marker points to is what the
delete links in its place.

A thread may stand on a node that is not on the list any more. What it may have come
to since it went inside is in no variable, so the invariant says that there is a set
of pairs `may[t]`, of a node and a level, with these properties. The node is linked,
or retired and guarded by the thread, and what stands behind it on the level is in
the set too; if it is not on its level any more, there is a marker behind it that is
as safe (`Gone`), so a CAS on it fails and a walk from it comes to the
list again. Nodes join the set when they are linked (`Grown`), and a thread that
leaves loses its own. What a call holds is in its set (`Held`).

The order comes on top (`SortInv`). It is not enough that neighbours are in
order (`InOrder`): an insert links by what it has noted on its way down, and its
checks are about pointers, not keys. `SortedAt` says that what is noted in `prev` is in
front of the new node and what is noted in `fwd` is not. Their keys cannot change
meanwhile, because a node in use keeps its key, and the notes are in use
by `IInv`. In a list with duplicates the `incr`s of the nodes in use are different
(`Incred`), which makes the order strict.

That the history keeps the nodes of the lowest level (`Listed`) follows from what a
step does to that level: only the link and the unlink at level 1 change it, only the
last word of the links and the flag of a delete change a record, and all four look at
the list in the same step. `CountInv` counts the calls between these steps and their
update of `num`, as numbers that wrap (`CountsOn`).

`AbOrder` lets a call answer with what was right at some moment, and the code does
not look at the list at one moment: a search may walk over nodes that others have
unlinked and marked. Since such a node keeps its `next` from then on, what a search
finds there was right when the node left, if the call was under way by then; and it
was, or the thread could not stand on it. `Hind` is this fact, for every node of
`may[t]` that is not on the lowest level: if its key is the one the call is about, the
call has seen it going; if it is in front of what the call looks for and the node behind
it is not, then some view in `seen[t]` has just that node as its first (`Tells`). It
is established by the step that unlinks the node and kept by all others (`HindStep`).
A search never passes its target (`Met`), and on the list itself the order says that
the present view has the answer (`AnswerNow`). So wherever a search ends there is a
view in `seen[t]` that agrees (`Answer`). The rest is bookkeeping: what a call has found
stays true until it is used, because `seen[t]` only grows and nodes keep their keys
(`MetStep`), and `Said` reads from `pc` and the locals how far a call has come for
`AbOrder`. `KnowInv` is the invariant of the refinement, and `OrderStep` has one
lemma for each kind of step: `LinkMaps`, `InsertedMaps`, `FlagMaps`, `UnlinkMaps` and
the answers change what `AbOrder` knows, the searches, checks and higher levels do not
(`SearchQuiet`, `GotoQuiet`, `InsertQuiet`, `DeleteQuiet`).

`AbBufProofs` proves, for any threads, items, kinds of indexes in any order, keys
and calls, and whatever was put before:

* `OneOwnerHolds`, the property `OneOwner`, and `TypeCorrect`;
* `ValuesWhole`, `NothingStale` and `GetsInOrder`, the properties `ValueWhole`,
  `NoStaleValue` and `MultiGet`, if a list is the only index of its buffer
  (`ListAlone`). Without it `ValueWhole` is false (see above).

The argument. A value is unmarked only when it is linked
or was taken back (`Unlinked`), a marked one has at most one thread that put
the mark on (`Owned`), a value that was taken back is freed by its put alone
(`TakenBack`), and an unmarked value that a delete can still win was never
taken back, unless the delete goes astray (`Apart`). All but the types is
claimed only as long as none did. There is one lemma for each step that changes
a mark or an item, and `Frame` for all others.

On the owners rests the rest, `Full`. A value with an owner is in just the indexes
its owner has come to or not come to yet (`Entered`), any other is in all
indexes or in none, as its item is linked or not (`Placed`); entries have the
key and the `incr` of their value, but for the one a put is about to write
(`Right`). So the `del` of a container finds just this value (`TakenIs`): by key in
a hash, since it has the key once (`Filed`), by key and `incr` in a skiplist, and
in a list because a delete that is inside has the front (`First`), which
nothing is put before. Hence no index answers that it has no such value, and the
assertion holds (`Finds`). A value that a call has read while inside is
linked, or retired and guarded by the call, so its item cannot be handed out
again, nor be entered again in the index it was read from (`Safe`). For a get of
several values that means that the value it has copied has one entry with one
`incr`, the last it has returned (`Copies`). What is due to it is in the index
(`Due`), so the least `incr` from there on leaves none of it out (`Passed`).
Types and what each local holds at each place (`Shape`) come first, one part of
the state at a time; then a lemma on each fact says that the steps of other
threads do not disturb it (`SafeOthers`, `FirstKept`, `DueKept`, `GetsOthers`),
from five plain statements of what a step can do to others (`Adds`, `Notes`,
`Guarding`, `Advances`, `Leaves`).

`AbBufProofs` also proves of `AbBufCmp` which numeric keys are compared as the numbers they are
(`SmallKeysOrdered`, `NearKeysOrdered`), that others are not (`WideKeysTurn`,
`LongKeysCollide`), and that the comparison of strings does not depend on which
one is asked first (`StringsAntisymmetric`).

It proves of `AbJsBuf` that appending writes all or nothing and stays within the
buffer (`AppendFits`) and that updating a length in place moves what stands behind
it by just as much as the length grew or shrank, leaves the rest alone and
stays within the buffer (`UpdateLenFits`), for any buffer, length and base.

Only model-checked: `AbJsDoc`, whose modules are recursive, which the prover
cannot reason about; the liveness properties, `CountSettles` among them, which are
beyond the prover; the races of a new pool.

## Not modelled

* Thread ids: `ab_get_thread_id` gives the id of a thread that has ended to a new
  one, and finds out who has ended from the operating system's files. `AbEpoch`
  takes distinct ids as given.
* In the hash: allocations that fail, `hashfunc` (`Hash` is any function), and a
  table whose block size is no power of two. In the skiplist: allocations that
  fail.
* In the mpool: several classes at once. A buffer whose values have different
  sizes (with a JSON document) uses several; each has its own epochs.
* In the buffer: init and destroy, which are sequential, foreach, and the layout
  of a value. A list together with other indexes: its del takes the front
  whatever value is to be deleted.
* In JSON: the digits of doubles, UTF-16 pairs beyond one, allocations that fail.
* The single-threaded branches (`thread_safe = 0`) and size arithmetic of
  `ab_mem.c`; the `foreach` functions, which are not for concurrent use.
* `ab_error.c`, `ab_index.h`: strings and types. `anybuf.c` and `anybuf.h` are
  generated from `abuf/`. The tests and `third/` are not part of the library.

## Plan

Done: every module above, with the proofs listed. Next, in this order:

1. The rest of `AbHash`: allocations that fail, with the entry that then points
   to a node off the chain, and the highest buckets of a large table.
2. Thread ids, with the operating system's table as an external part.
