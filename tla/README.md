# QuackTools in TLA+

QuackTools is a desktop program (C++, wxWidgets) for one computer: a user logs
in and hides, encrypts, hashes or encodes files. The algorithms are classes
under `src/source/src` with headers under `src/include`; the window `MyFrame`
in `gui.cpp` calls them. This directory holds TLA+ modules of the parts
modelled so far, configurations that model-check them with TLC, and proofs
checked by TLAPS.

`PROJECT.json` lists the components, the runs, the lines of code each
definition models, the hazards and the theorems.

## 1. Inventory

| component | code | state | operations | modelled |
|---|---|---|---|---|
| sha256 | `sha256.cpp/.hpp` | message list, counters, hash, two threads | `compute_hash` (`prepare_message`, `prepare_padding`, `start_read`, `read_data`), getters, copies | pipeline and padding; object partly |
| aes256 | `aes256.cpp/.hpp` | subkeys, counter, padded last block, pointer into the caller's buffer | constructor, `encrypt`, `decrypt` with a thread per block, getters, copies | yes, the arithmetic of the rounds abstracted |
| base64 | `base64.cpp/.hpp` | none: static functions | `base64_encode` in three standards, `base64_decode`, sizes | yes |
| diffie_hellman | `diffie_hellman.cpp/.hpp` | private, public and shared key | half-keys, exchange, copies | the 256 bit exchange |
| steganography | `steganography.cpp/.hpp` | an OpenCV image, two counters | `hide_file`, `seek_file` and their four helpers | yes |
| file_operations | `file_operations.cpp/.hpp` | mapping, descriptor, path, `memory_is_clean` | constructors, assignments, `clear`, `save_third_file`, `save_this_file` | the Linux branch |
| GUI: accounts | `gui.cpp` to line 760 | accounts on disk and in memory, working directory, panel, fields, session | start-up, login, new user, change of panel, exit | yes |
| GUI: operations | `gui.cpp` from 1565 | the file and options of each tool, text fields, the files of the users | the six buttons `button_calc_*`, `button_open_file`, `button_open_img` | yes |
| GUI: layout | `gui.cpp`, `gui.hpp` | widgets | construction and placement | no: nothing to check |
| log_operations | `log_operations.cpp/.hpp` | a text file | append a line | no: nothing reads it |
| tests, samples | `tests/`, `sample/` | | | read as documentation |
| build, third party | `CMakeLists`, submodules | | | no: external |

How they meet: the window owns the accounts and the session and calls the tools
one after the other, on the thread of the window. `file_operations` maps the
input into memory; aes256 works in that buffer in place, sha256 reads it. Only
sha256 (two threads and a list) and aes256 (a thread per block) start threads,
and both join them before they return. The accounts survive the process in
`users/users.json` and in a folder for each user, and the working directory of
the process is state that login changes and later saves depend on: the tools write
their output under a relative name, into the folder of the user who is logged in,
and take their key from `local_hash_pwd`, which the same login has set. What was
chosen for a tool is a member of the window and stays when the user changes.

What is hard, and what makes each component correct:

- **sha256.** The producer fills the last message of a `std::list` through
  `back()` while the consumer reads, and destroys, the one at `front()`, without
  the mutex that guards `size`, `push_back` and `pop_front`. With one message in
  the list they are the same. Correct means: no data race; whole blocks, each
  once, in order; the list bounded; the heap blocks freed; both spin loops end.
- **sha256 padding.** Three places decide on their own whether the padding takes
  one more block, and the place of the padding bit is computed from the number
  of zeros. Correct means: the message of FIPS 180-4.
- **aes256.** The threads write into one buffer while others are still started;
  `decrypt` has to guess whether there was a padding; the object can be used
  again after either operation; copies. Correct means: the file in counter mode,
  the same for every interleaving; a second object recovers the input; the
  counters of two blocks differ; the in-place rotations are rotations.
- **accounts.** A file that is truncated before it is written, a folder made
  after the account, paths relative to a directory that login changes, names that
  are used as paths without a check, system calls that fail unnoticed or throw, a
  password field for each panel. Correct means: no account that was ever written is
  lost by a save, the session's name, key and directory belong together, no
  credential stays behind in a hidden field, only the new user's folder is ever
  deleted, and the program starts again.
- **steganography.** Four loops write the length, the file, the pixel between them
  and the last byte, each with its own idea of the next row; four helpers put the
  bits together again by other rules. Correct means: the loops agree on where the
  next bit goes, nothing outside the image or a buffer is used, and what was
  hidden is found.
- **file_operations.** An object owns a descriptor and a mapping through copies,
  moves and assignments; a system call can fail between the two; a save unmaps the
  file it is about to write, which may be where its input is. Correct means: each
  resource has one owner, nothing is lost, a save that succeeds wrote all pieces
  in order, and one that fails left the old file or a prefix of the new one.
- **base64.** The encoder finishes each letter one byte late and the last one behind
  the loop; the decoder takes the length from the padding and reads the last group to
  its end in any case; letters are told apart by ranges of codes. Correct means:
  RFC 4648, and what was encoded is decoded, without reading outside of the text.
- **Diffie-Hellman.** A key is eight exchanges in one string of hexadecimal digits,
  which two users copy by hand. Correct means: the words of the string keep their
  length whatever zeros they begin with, and both users get the same key.
- **GUI operations.** Each button puts together file operations, a digest of a
  password, aes256 and steganography on its own, with different ideas of the last
  block, and then a message. Correct means: no file is overwritten, what was hidden or
  encrypted comes back to whoever has the key, and the message is true.

## 2. The modules

```
ShaBlocks ── ShaPipeline ── MCShaPipeline          Accounts ── MCAccounts
   │            ┊  └─ ShaPipelineProofs                └────── AccountsProofs
   │            ┊                                  AesCounter ─ Aes ┬ MCAes
   ├── ShaDigest (abstract specification)                           └ AesProofs
   └── ShaPadding ┬─ MCShaPadding                  AesRotate ┬─ MCAesRotate
                  └─ ShaPaddingProofs                        └─ AesProofs
                                                   Stego ┬─ MCStego
                                                         └─ StegoProofs
                                                   FileOperations ┬─ MCFileOperations
                                                                  └─ FileOperationsProofs

Session ──┬─ FileTools ────────────┐
Base64 ───┼─ TextTools ────────────┼── Tools ──┬── MCTools
DiffieHellman ── KeyTools ─────────┘           └── ToolsProofs

DataLemmas ── AesProofs, StegoProofs, FileOperationsProofs, ToolsProofs
```

`AesProofs` is about both aes256 modules. `DataLemmas` has what several proofs need of
numbers and sequences, whatever the program: division, powers of two, joined sequences,
and the two arguments that stand for an induction (section 4). The modules define what is
repeated as recursive functions and folds, never as recursive operators, so that each of
them can be proved about.

### sha256: ShaBlocks, ShaPipeline, ShaDigest, ShaPadding

`ShaBlocks` is the arithmetic on the length of the message (`NeedExtra`,
`ZerosForPadding`, `Cycles`, `FullBlocks`, `MarkByte`) and what FIPS 180-4 asks
for. A block is abstracted to the set of parts that are stored in it: a piece of
input, a copy of its last bytes, the padding bit, zeros, the length.

`ShaPipeline` is `compute_hash` with its two threads. Each acquisition of a
mutex, each body of a critical section and each access outside one is an action:

| actions | code |
|---|---|
| `ComputeEmpty`, `StartThreads`, `JoinThreads` | `compute_hash` |
| `LockSize`, `ReadSize`, `EndLoop`, `FillFull`, `FillTail` | the loop and the tail of `prepare_message` |
| `LockPush`, `PushBack` | `safe_t_push_back` |
| `PadTail`, `FillExtra` | `prepare_padding` |
| `LockBack`, `MarkReady`, `ReleaseBack` | `unlock_back` |
| `LockLook`, `Look`, `EndRead` | the loop of `start_read` |
| `LockFront`, `CtrlFront` | `ctrl_front` |
| `ReadData` | `read_data` |
| `LockPop`, `PopFront` | `safe_t_pop_front` and the destructor of a message |

`list` is `_workspace`, each node with its parts, its flag `_has_00_15_read`, the
holder of its mutex and `_has_00_15_to_heap`. `hash` is the sequence of blocks
folded into `_hash_result`, because a digest is right when, and only when, the
right blocks are compressed in the right order; the compression function itself
has no control to model. Memory accesses are given by the control of a thread
(`ProducerReads`, ... over cells of the list header, of its nodes and of the data),
so that `NoDataRace` is a predicate on a state: two enabled accesses to one cell,
one of them a write, with nothing that orders them. The links of the list, the
counter `size()` reads, the flag, the mutex and the 64 bytes are separate cells.

`ShaDigest` is what `compute_hash` promises: the blocks of the padded message are
absorbed one after the other, then the call returns. `ShaPipeline` implements it
with `digest <- hash` and `returned <- (caller = "returned")`.

`ShaPadding` spells out the bytes that `ShaPipeline` calls parts: `prepare_message`
and `prepare_padding` by one thread, with the loop that walks back over the
zeros. Memory from `new[]` holds `Junk` until it is written. `WalkEndsAtMark` ties
it to the closed form of `ShaBlocks`, so the abstraction is checked, too.

### Accounts

One process with its disk. `dirs` and `json` survive; `cwd`, `fileJson` (the
accounts in memory), `oneOrMore`, the panel, the password fields, the label with the
user's name and `local_hash_pwd` do not. Two history variables, `recorded` (every
account that a whole `users/users.json` ever had) and `harm` (whether this file was cut
short, or taken by an odd name), are for the properties only.

| actions | code |
|---|---|
| `Launch` ... `LoadJson` | `ctrl_user_at_start` |
| `ButtonBack`, `ButtonNewUser`, `ButtonRecPwd`, `ButtonRecoveryPersonal` | the buttons of these names |
| `LoginRefused`, `LoginNoFolder`, `Login` | `button_enter_login` |
| `AddRefused`, `AddWeak`, `AddUser` | `button_add_user` |
| `OpenJson`, `WriteJson`, `RemoveOld`, `MakeFolder` | `save_new_user` |
| `CreateJsonFails`, `StartJsonFails`, `LoadBlocked`, `OpenJsonFails`, `WriteJsonFails` | what a failing open or write of `users.json` does |
| `LoginThrows`, `RemoveThrows`, `MakeThrows` | an exception of `std::filesystem`, which ends the process |
| `OnExit`, `Crash` | the other ends of the process |

Start-up and `save_new_user` are sequences of actions, one for each change on disk,
so that a crash can fall between any two. A button of the window is one action:
nothing else runs on that thread.

A path is a sequence of names below `users/`. The code uses the name of a user as a path
as it was typed, so the names are of two kinds. A plain one is one step down from the
working directory. An odd one (`Odd`: `..`, `../bob`, `/tmp`, `users.json`) leads where
the constant `Target` says: to any folder, to a `users.json`, or out of the paths
of the model (`Elsewhere`). `remove_all` then deletes what is at and below it, the accounts
of others included; from a working directory elsewhere it may be any path or none.

`typed` has the field that `_password_in_use` names on each panel, and the other password
fields of the panel behind the login (`Others`: the new password and its repetition, and those
of hide, seek and aes256), which nothing clears. A password is a model value with a
length and the kinds of letters in it. Its digest is a free constructor, since
the properties only ask which user and password it was made from; of the digest
the program uses 8 hexadecimal digits for the secret in `users.json` (`Short`).

### Aes, AesCounter, AesRotate

`Aes` is one object and a caller who loads a file, encrypts, decrypts, saves what
`button_calc_aes256` saves, and loads that again under the same or another key.
`done[n]` says how many bytes the n-th thread has xored; the threads interleave
byte by byte, also with the starts of later ones. The rounds are the constant
`BlockOf`, a block for each key and counter and one to one for each key: counter
mode uses nothing else of AES. `KeyStream(n)` is `BlockOf` of the counter of block
`n`. The constructor's padding, the search of `decrypt` for a padding, the block
`final_pad` that is made again after it, and the reads outside the buffer are
modelled as they are: what is read there is arbitrary, and such a read may end the
program (`DecryptCrashes`). A copy of the object gets an arbitrary counter and
flag, since both members are left uninitialised. `plain` and `story` are history
variables for the properties.

`AesCounter`, which `Aes` extends, is `sum_w128`, which derives the counter of a block from its number.
It is not an addition: `sizeof(uint8_t)` is 1, so the number is shifted by one bit
for each byte, and a carry that comes in never goes on. The module has the
width of a byte and the length of a counter as parameters.

`AesRotate` is the four rotations under `shift_rows` and `inv_shift_rows`: in
place, one cycle after the other, as many as the greatest common divisor of the movement
and the length (`gcd`).

### Stego

One call of `hide_file` and then one of `seek_file` on the image it wrote, pixel
by pixel. `row`, `col`, `cursor`, `bits` and `choose` are the counters of the code
(`state_rows`, `state_cols`, the byte and bit of the payload, `counter_index` or
`bits_already_read`, `color_choose`).

| actions | code |
|---|---|
| `Refuse`, `StartHide` | the early returns of `hide_file` |
| `HeaderPixel`, `NarrowRow`, `Boundary` | the loops over the 64 bits of the length, and the pixel shared with the data |
| `DataPixel`, `LastByte`, `LastColour`, `Written` | the loop over the payload, its last byte colour by colour, `imwrite` |
| `SeekTiny`, `SeekHeader`, `SeekLength` | `seek_file` up to the allocation of `file_data` |
| `ReadPixel`, `ReadLast`, `ReadAll`, `ReadName` | `store_single_color`, `store_last_color`, the length of the name |

The low bit of a colour is modelled by which bit it is (the k-th of the length, the
k-th of the file, the one the image had, one from behind the buffer), not by its
value, so one behaviour stands for all contents. A value is only needed where
`seek_file` decides by it, the length of all and the length of the name: there
`Numbers` gives every number the bits can spell. A bit of `file_data` is the
set of the bits or-ed into it. The column behind the last is the first of the next
row, as `at()` computes it in a build without assertions. `outside` collects the
kinds of memory used beyond their bounds.

### FileOperations

Variables of a caller, `objs`, that hold a `file_operations`, the process (`sys`:
descriptors and mappings in use, those lost, the system calls that failed, the
rules broken), the disk, and the save that runs (`call`). Constructors,
assignments and the destructor are one action each; a save is a sequence
(`SaveThird` or `SaveThis`, `CopyOwn`, `ClearThis`, then `OpenStream` and
`WriteStream` for each piece, `Reload`), so that a state between two of them is
what an end of the process leaves behind. `Clear`, `ReadFile` and `SetVars` are the
private members, as sets of outcomes: one for success and one for each system call
in `Faults`. A piece (`Piece`) is an address with an offset, a length and the flag that
deletes it. `Pop` is `pop_front` behind the first piece, with its destructor: with the
flag on a piece of the object's own data it frees the copy (`CopyFreed`) that the pieces
behind it are read from, and that `clear_this` frees again (`Released`). Numbers of descriptors and mappings are the lowest free ones, as the
kernel gives them, so that a second release of a number hits what another object
has opened since; `"foreign"` in `sys.broken` records that.

`call.want` is what the file should become, computed when the save begins, and
`call.safe` says that the caller's pieces can still be read when their turn comes: they lie
on the heap; at the front of the object's own mapping, not longer than the first such piece,
and without the flag that deletes it unless there is only one piece; or in another mapping,
of a file that is not the target, without that flag. So a pointer from further in the object's
own mapping, which `save_this_file` does not copy and then unmaps, is not safe. (The own mapping is known by its
address only. After a failed `close` an object still holds the address of a mapping
that is gone and that another object may have got since: pieces of it are then taken for
the object's own data, and the second case does not stand for them.)

### Session, FileTools, TextTools, KeyTools, Tools

`Tools` is the window behind the login. `Session` is what its tools share: the user,
who logs in and goes back (the conditions of a login are the subject of `Accounts`),
and the end of the program, when a tool reads outside of memory. They share nothing
else, so a behaviour is about one `tab`, chosen at first. A press of a button is one
action: nothing else runs on that thread.

| actions | code |
|---|---|
| `Login`, `Back` | `button_enter_login`, `button_back` |
| `CalcHide`, `CalcSeek`, `SeekEnds` | `button_calc_hide`, `button_calc_seek`, and its end by a decryption of nothing |
| `CalcAes256`, `DecryptEnds` | `button_calc_aes256`, and its end by a read outside the buffer |
| `ChooseFile`, `ToChoose`, `ImagesToChoose` | `button_open_file`, `button_open_img` |
| `CalcB64`, `CalcB64File`, `CalcB64FileEnds` | `button_calc_b64`: a text, a file, and a file that is read behind its mapping |
| `CalcSha256`, `CalcSha256File` | `button_calc_sha256` |
| `CalcHalfKey`, `CalcKey` | `button_calc_dfhl` |
| `Type`, `PasteOutput` | the user and the text fields |

`FileTools` is the three tools that write files. `disk` maps paths to contents, and
`log` keeps what each run was asked and has reported. A content is a term: what it was
made of, what was put behind it, the set of keys it is xored with (a key used twice is
gone again, as in counter mode), its length, and what an image hides. So
`EncryptedBlocks`, `Encrypted` and `Decrypted` say what `Aes` shows of the bytes (payload,
padding or none, the final block behind the payload), `ReadsOutside` when `decrypt` reads
in front of its buffer or behind it, and `Found` what `Stego` shows: the
length of the name is not read as it was written when the payload is a multiple of
three bytes or its last byte starts in the last column (`NameUnsure`, `Stego!Wraps`), an image of
at most 64 pixels is refused, and one that hides nothing may look as if it did.
What seek or decrypt make of data with the wrong key is the term as it is, or
`Noise`. A stem is a name, or a stem with a number behind it, so that names made by
`check_non_exists_file` can be equal to names that are there. `Save` is `save_third_file`
as the buttons call it: an `open` for the payload and one for the final block, each of which
may fail, and writes that may fail unnoticed and leave anything (`Scraps`). The file or image that a tool works
on is any file that exists, or none: what is chosen stays chosen, also for the next user,
and no tool removes a file, so every earlier choice is still among them.

`TextTools` is base64 and sha256 on what is typed, pasted from the output, or
in a file, as a whole or line by line. Texts and contents are bytes. `Base64` has the
encoder (its two counters and the letter it finishes one byte late), the decoder, and RFC
4648, by its 24 bit groups, as a reference; `Junk` is a byte of the result that was
never written. Line by line, a file is taken for a C string, which ends at its first zero,
in the zeros behind it in its last page, or behind the mapping (`AsString`).

`KeyTools` is the exchange. `DiffieHellman` has the parameters of the code as constants:
the prime, the base, the bits of a digit, the digits of a number and the numbers of a
key. `notes` are what a user has written down of a half-key, `shared` the key shown last.

## 3. What the runs show

Passing runs; every property also has a mutant of the code that violates it.

| run | question | bounds |
|---|---|---|
| `sha_pipeline` | race, order, bound, memory over all interleavings; both threads end; `ShaDigest` is implemented | twelve lengths from 0 to 448 bytes; `Limit` = 1 |
| `sha_padding` | the bytes of the padded message | every length from 1 to 193 bytes |
| `accounts` | accounts, session, fields, folders and start-up under faults | 2 users with plain names, 4 passwords and a further field, or `..` or `users.json` with one other name and 1 password; every fault, restarts |
| `aes` | counter mode, no counter used twice, round trip, use in place | 11 files of 1 to 9 bytes, blocks of 4 bytes of 2 bits, 2 keys, `MaxOps` = 4 |
| `aes_rotate` | rotations are rotations, and end | squares of 1 to 4 and 6 rows, rounds 0 to 7 |
| `stego` | the layout of the image, and what is found in it | 10 sizes of image, 8 files of 3 to 19 bytes, `MaxName` = 3 |
| `tools` | files kept, messages true, files found and decrypted again, base64 as in the RFC and decoded again, keys agree | 2 users, 5 pairs of a file and an image, 12 texts, 6 contents, the prime 5; `MaxOps` = 2 for files and texts, 4 for keys |
| `file_operations` | owners, losses and saves under failing system calls | 2 objects, 2 names, 11 lists of pieces, every fault, `MaxOps` = 3 |

Why the bounds are enough:

- *Sizes.* The code depends on the length through `size % 64` and the number of
  whole blocks. The sizes hold both sides of each boundary (55/56, 63/64), a
  lone tail, an empty tail behind a full block, and up to eight blocks, with and
  without an extra one. The proofs hold for every length.
- *Limit.* With 1 the producer meets the limit at the third message, with the
  longer lengths again and again. The proofs hold for every limit.
- *Users, Passwords.* Two users are needed for a folder within a folder, and for an
  account that another one's save could lose; the proofs hold for any number. The
  passwords are two accepted ones, one too short and one without a symbol.
  The plain names and the accepted passwords are interchangeable, which `MCSymmetry` uses for
  safety; the one action property quantifies over users and is symmetric too.
- *Odd names.* `..` leads to `users/` from a user's folder and out of it from `users/`;
  `users.json` leads to the file with the accounts, or to one that another working directory
  has. With one other name beside it, folders of others, `users/` and the file are all
  deleted, and the working directory itself too. `MCBound` keeps an odd name apart from
  a third name and a second password, which would give no new relation between path, folder
  and file; the proofs hold for every `Target` and any number of names.
- *Aes.* Blocks of 4 bytes give paddings of 1 to 3 bytes. The files are shorter than
  a block, whole blocks and neither, with ends that look like a padding and
  ends that do not. `MaxOps` = 4 is encrypt, save, reload, decrypt, and encrypt,
  decrypt, encrypt, save. A byte must hold the size of the padding, so
  `Dim <= MaxByte + 1`, as 16 <= 256.
- *Period.* `sum_w128` tells `2^(Width + Dim - 1)` block numbers apart. For bytes of
  8 bits and 16 of them this is 2^23 blocks, 128 MB: a longer file meets
  the counter of its first block again.
- *Modulus.* The conversion to `uint32_t` is a remainder modulo 2^32. TLC's integers
  end below that; 2^16 has the same remainders modulo 1 to 6.

- *Images, Files.* The images are narrower than the 21 pixels of the header, as wide,
  just wider, of one row, too small for hiding or for seeking, filled to the last
  colour, and with the last byte at the end of a row. The files leave each
  remainder by three, and one name is longer than `MaxName`. The loops depend on
  the lengths only through these.
- *MaxOps.* Three calls are two objects that share a file (by copy, move or assignment)
  and one that saves, assigns or destroys; a save that reloads, behind another.
  Two objects are needed for a number that is released twice. The lists have the
  object's own data once, twice with different lengths, too long, empty, before
  and behind other pieces, from the second chunk on, and with the flag that deletes it, alone
  and in front of another piece of the same data.
- *Tools.* Two presses of a button are hide and seek, or encrypt and decrypt, with
  every file, user, key and name in between, and two outputs of one name; four are two
  half-keys and two keys. The files are shorter than a block (`pin`), whole blocks (`doc`) and
  neither (`note`). The `sky` has room for all of them, and the encrypted `note` ends in a byte
  that starts in its last column; the `dot` has room for the `note` as it is, not encrypted,
  and seek refuses it; an output of text is no image for `imread`. Document and image are
  at home or in the folders of two users. A write that fails leaves nothing or 5 bytes
  (`ScrapLens`). For more presses and files see the proofs.
- *Texts.* Every remainder by three, letters 62 and 63 of the alphabet, empty
  lines, a last line with and without an end, padded and unpadded input, contents with
  zeros and of a whole page. A group depends on nothing outside of it. The proofs hold
  for every ASCII text.
- *Keys.* Words of two digits of two bits and the prime 5 have every number of
  zeros in front, and the powers of two at which the logarithm steps; two words
  of a key show whether they are cut at the right place. The proofs hold for every prime,
  base and length of a key.
- *Rotations.* Squares of 1 to 4 and 6 rows have movements that divide the length, that
  are prime to it, and neither. The proof holds for every shape and round.

`CHECK_DEADLOCK FALSE` is said for `AesRotate` and `Stego`, whose systems
are one call that ends (or, for `Stego`, one after the other), for
`FileOperations`, where `MaxOps` bounds the calls, and for `Tools`, whose program may be
ended by a read outside of memory. In every other run TLC checks
that there is no deadlock.

### Fairness

- `ShaPipeline!Fairness`: weak fairness of the caller and of each thread (the
  scheduler runs what can run), and strong fairness of the acquisition of a mutex.
  Both threads spin through `_flag_mtx_list_p`, so under weak fairness alone one of
  them could take it for ever. The code relies on the same: `std::mutex` promises
  no order, and on the platforms it is written for a thread that waits is woken in
  the end. Without that assumption `Termination` is not a property of this code.
- `AesRotate`: weak fairness of the one thread. `Accounts`, `Aes`, `Stego`,
  `FileOperations` and `Tools` have only safety properties and state no fairness:
  nothing in the program makes a user press a button.

## 4. What is proved

| theorem | statement |
|---|---|
| `ShaPaddingProofs!MarkBehindInput` | for every length the padding bit lands on the first bit behind the input |
| `ShaPipelineProofs!TypeCorrect` | `Spec => []TypeOK` |
| `ShaPipelineProofs!DigestCorrect` | `Spec => []DigestInOrder` |
| `ShaPipelineProofs!RaceFree` | `Spec => []NoDataRace` |
| `ShaPipelineProofs!Bounded` | `Spec => []ListBounded` |
| `ShaPipelineProofs!HeapOwned` | `Spec => []PaddingOwned` |
| `ShaPipelineProofs!DigestSafety` | `Spec => Abstract!AbsSpec` |
| `AccountsProofs!TypeCorrect` | `Spec => []TypeOK` |
| `AccountsProofs!NoAccountLost` | `Spec => []AccountsKept` |
| `AccountsProofs!SessionCorrect` | `Spec => []SessionIsUsers` |
| `AccountsProofs!FieldsCleared` | `Spec => []CredentialsCleared` |
| `AccountsProofs!FoldersKept` | `Spec => OthersFoldersKept` |
| `AccountsProofs!StartsAfterAll` | `Spec => []StartsAgain` |
| `AccountsProofs!WelcomeCorrect` | `Spec => []WelcomeNeedsUser` |
| `ToolsProofs!FilesKept` | `Spec => NothingOverwritten` |
| `ToolsProofs!MessagesRight` | `Spec => []ReportedAsSaved` |
| `ToolsProofs!SeekFindsAgain` | `Spec => []SeekRecovers` |
| `ToolsProofs!DecryptFindsAgain` | `Spec => []DecryptRecovers` |
| `ToolsProofs!EncodingsAreRfc` | `Spec => []EncodedAsRfc` |
| `ToolsProofs!TextsComeBack` | `Spec => []TextRoundTrip` |
| `ToolsProofs!KeysAgree` | `Spec => []SharedAgree` |
| `ToolsProofs!KeysAreWhole` | `Spec => []KeysWhole` |
| `AesProofs!TypeCorrect` | `Spec => []TypeOK` |
| `AesProofs!CountersFreshAlways` | `Spec => []CountersFresh` |
| `AesProofs!CipherSavedAlways` | `Spec => []CipherSaved` |
| `AesProofs!RoundTripAlways` | `Spec => []RoundTrip` |
| `AesProofs!InPlaceAlways` | `Spec => []InPlace` |
| `AesProofs!RotatedAlways` | `RotateSpec => []Rotated` |
| `FileOperationsProofs!TypeCorrect` | `Spec => []TypeOK` |
| `FileOperationsProofs!OwnedOnceAlways` | `Spec => []OwnedOnce` |
| `FileOperationsProofs!NothingLostAlways` | `Spec => []NothingLost` |
| `FileOperationsProofs!ReloadShowsAlways` | `Spec => []ReloadShows` |
| `FileOperationsProofs!SavedWholeAlways` | `Spec => []SavedWhole` |
| `FileOperationsProofs!SavedInOrderAlways` | `Spec => []SavedInOrder` |
| `ShaPaddingProofs!PaddedAlways` | `Spec => []PaddedAsFips` |
| `ShaPaddingProofs!WalkEndsAlways` | `Spec => []WalkEndsAtMark` |
| `StegoProofs!BytesInPlaceAlways` | `Spec => []BytesInPlace` |
| `StegoProofs!SeekFindsFileAlways` | `Spec => []SeekFindsFile` |
| `StegoProofs!InBoundsAlways` | `Spec => []InBounds` |

Assumptions: the sha256 theorems need only that sizes and limit are natural
numbers (`SizesAssumption`, `LimitAssumption`), so they hold for the real limit and
every length below 2^61 bytes (above, the length in bits no longer fits the
`uint64_t` of the code, which the model does not wrap). The account theorems need
`NoNameAssumption`, `PathAssumption` (a plain name is one step down, and is not `users.json`),
`PasswordAssumption` and `FieldAssumption`, for every set of users, odd names and what they lead
to, passwords and fields, and every choice of faults. `FilesKept` and `MessagesRight` need no assumption at all;
what is found and decrypted again needs `FilesAssumption`: files have a length, users and
passwords are not the marks for "nobody" and "no key". Those four hold for every
set of users, passwords, files, images and names and any number of runs. The two about
texts need that what is typed is ASCII and that a file consists of bytes
(`TextsAssumption`), of any length. The two about
keys need `PrimeAssumption`: `Q` is a prime above 2, which a word of a key can hold, and the
base is between 1 and `Q`, as for the constants in `diffie_hellman.hpp`; and that other
strings a user may type are strings (`OddKeysAssumption`). `RotatedAlways` needs that a matrix
has an element (`ShapeAssumption`) and that a round, an `int32_t`, is less than the modulus of
`uint32_t` (`RoundAssumption`). The other theorems
about aes256 need that a byte can hold the size of a padding (`SizeAssumption`, 16 <= 2^8
in the code), that xor with the same byte twice is nothing (`XorAssumption`), that AES
with one key is a permutation of the blocks (`KeyAssumption`) and that there is a file
(`InputsAssumption`); they hold for every size of block and file, every width of a byte
and any number of operations. Those about `file_operations` need that files are
sequences of chunks or absent, which are not the same (`ChunksAssumption`,
`DisksAssumption`), that lists are sequences of what a caller can make a `file_pointer` of
(`ListsAssumption`), and that the mark for "no name" is neither a name nor an object
(`NamesAssumption`); they hold for any number of objects, names, chunks, pieces and calls
and every choice of faults. `PaddedAlways` and `WalkEndsAlways` hold for every
length above zero. The theorems about the image hold for every file, every `MaxName` of 1 to
255 (`MaxNameAssumption`: the length is one byte) and every image for which the product of rows,
columns and channels fits an `int` (`ProductAssumption`): the code computes it in 32 bits
(`steganography.cpp:84` and `:354`), and what it does when that overflows is not modelled.

**The argument for the pipeline.** None of the properties is inductive. What makes
the unlocked accesses right is a relation between the control of both threads and
the list, the invariant `IInv` of `ShaPipelineProofs`:

- `MessagesInv`: the nodes are numbered one after the other and the list holds those
  behind the `idx` first; all but the one the producer is filling, which is the last,
  are complete and flagged;
- `ConsumerInv`: a consumer that is about to read has a flagged front, so it is not
  the node the producer is filling; what it has folded are the first blocks;
- `ProducerInv`, `CallerInv`: the counters follow from the control;
- `MutexInv`: a mutex is held by a thread exactly while its control is inside the
  critical section;
- `HeapInv`: the allocated padding blocks, by their numbers.

`MessagesInv` needs that a flagged block is what FIPS asks for, which is
`MarkBehindInput` for the padding and the arithmetic of `FullBlocks` for the rest.
From `IInv` the safety properties and the step simulation of `ShaDigest` follow.

**The argument for the accounts.** The first invariant, `IInv`, is about one life of the
process: `StartInv` (where it is while it starts), `UniqueInv` (no name twice, in memory and in
every file that is ever written), `SavingInv` (the new account is the last one) and
`PrefixInv` (the file at the root, when it is whole, holds the first accounts of those in memory,
wherever the rewrites since the load went). `OthersFoldersKept` needs `UniqueInv`: `remove_all` runs
on the newest name, so with plain names a folder of an older account could only be lost if
the name were there twice, or if one folder lay within another (`OtherFolderNotBelow`).

`AccountsKept`, `StartsAgain` and `WelcomeNeedsUser` speak of several lives, over crashes,
exceptions and failing calls, and have an invariant of their own on top of `IInv`, `LifeInv`:

- `KeptInv`: what was ever recorded is in the file when it is whole, and, from the load on,
  in memory, so that the next rewrite can write it again. While a rewrite is under way the file
  is torn, and memory alone has them; a load then does not come to an end.
- `TornInv`: while `harm` is empty, the file is torn, or a folder, only between the truncation
  and the contents.
- `WelcomeInv`: `one_or_more_user` is still what the disk says when the file is loaded.

Most of the work is `DeleteRoot`: what `remove_all` can do to the file at the root. With a plain
name one step down (`OneStepDown`) it is never deleted; otherwise `harm` says so.

**The argument for the tools.** `FreeStem` is a `CHOOSE` over the numbers up to one more
than there are files. That such a number exists, and that the name is then free, needs
that the files are finitely many, that two numbers never give the same name, and that a
set of numbers has a least one; with the names all taken there would be more names than
files (`SomeNumberIsFree`, by the pigeonhole principle). So a run writes at most one
file, which was not there (`RunKeeps`). `ReportedAsSaved` follows because later runs keep
the file that was reported. The inductive invariant `FilesInv` is these parts: finitely
many files, a history that is a sequence, and `ReportedAsSaved` itself. `SeekRecovers` and
`DecryptRecovers` also need what a content is, a term of any depth: `ContentsInv` says that
there is a set that holds every file of the disk and is closed under taking a term apart
(`Formed`), which needs no induction over terms, and `RunRight` that the output of a run is
still what the run made. `SaveIs` lists the outcomes of `Save` (which of the two opens, which
writes) and `Honest` says of each that the message fits what the file then holds.
`ReportedAsSaved` says nothing of a run whose writes fail, and `SeekRecovers` and
`DecryptRecovers` exclude it too, together with `NameUnsure` and what `Known` leaves out.

**The argument for aes256.** `CountersFresh` first: `sum_w128` shifts the number of a block by
one bit for each byte of the counter, so the counters of two blocks are equal only if
the numbers agree in their last `Width + Dim - 1` bits; this is where the period of
2^23 blocks comes from. Without induction, a power of two is counted as the subsets of
an interval, and the last bit in which two numbers differ is the least of a
set. The rest is one invariant: `TypeOK` with `StoryInv`, which says for each history
that a property speaks of (encrypt; encrypt and save; ... reload and decrypt) what the buffer,
the counter and the padding are at its end, and while an operation runs which bytes each thread
has xored. `DoneInv`, that a thread is done with its block when the operation is over, is
the part that the interleaving needs: a byte is xored once, by the thread of its block.

**The argument for file_operations.** `OwnedOnce` is not inductive: a number that was lost
could be given to an object and released there. `Sound` says of numbers in use and
objects together that each number is lost or belongs to one object, and what is lost belongs
to none (`Held`, once for descriptors and once for mappings); it is proved of `Clear`,
`ReadFile` and `SetVars` one by one, in the middle of a handler too, and a handler is
their composition. A save may reload its object after any number of writes: `CallInv`
says that a call which will do so has released the object before it opened the stream.

`SavedWhole` and `SavedInOrder` relate a save's list to what it was when the save began,
and in between the pieces may be unmapped, replaced by a copy and their files rewritten. `SaveInv`
says that there are contents `P` of the pieces, which joined one after the other are `F`,
such that (`Planned`) the file shall become what it held, if it is not truncated, and all of `F`;
(`Progress`) the file holds what it held, or this up to the piece that is next; and (`Ready`)
a piece that is not written yet still shows its `P`: its address is on the heap, in the
copy, or in a mapping of another file that nobody rewrites (`Steady`), and behind `clear`
none is left in the object's own mapping (`Apart`). `Undeleted` says that no piece with the
delete flag is in the copy, or will be, unless it is alone, so the copy is there as long as it
is read. `DataInv` adds that files, mappings and copies are
made of chunks. `FlattenSeq` is a fold; what
is needed of it (`Flattened`, `PrefixOfConcat`) follows from the least number of pieces for
which it would be false (`Upwards`), and `Joined` says what the steps
need without it. The attempt showed that `call.safe` was too wide (the case in brackets in
section 2): with `Faults = {close}` and four calls TLC then found a save that was called safe and
read another object's mapping.

**The argument for the padding.** `IInv` of `ShaPaddingProofs` names what each byte of the
last block is: the input before `Rest`, then the mark, then zeros (`TailOf`). While
the loop walks back, the zeros that are left are those behind the place it has reached,
`z = 8 * (idx - 1 - Rest) + 7` (`WalkInv`), so it ends exactly at the first byte behind the input.

**The argument for the image.** Each of the four loops of `hide_file` has a relation between
the pixel and the cursor (`HeaderInv`, `DataInv`, `LastInv`): three times the pixel is the bits
of the header and the cursor, until the last byte, where the pixel may stay behind the
cursor but never goes before the first bit of that byte. With `Fits` the rows cannot
end before the last byte (`RowsSuffice`), so the way out of the data loop at its last row is
never taken.

`SeekFindsFile` and `InBounds` speak of the plain images, without the two cases that they name,
and there the relations are exact: `StagesInv` says that the last byte follows its pixel without a
gap (`LastExact`), that the written image has every bit in its place (`Whole`), and that what
`seek_file` has read at any moment are the first bits of what was written, the rest of the byte
that has begun being clear (`HeaderRead`, `FileRead`). That the bits then give the
length back, and not another number, needs that two numbers of 30 bits which agree in every bit are
the same (`SameBits`). There is no induction to prove it with: the least `n` for which the two are
equal after a division by 2^n is 0, since otherwise they would differ in the bit before it; a power
of two is counted as the subsets of an interval, as for aes256. No length needs more bits because of
`ProductAssumption`.

**The argument for the rotations.** `RotateInv` says of every place of the line that it holds
what it held at first (`Kept`) or what it is to hold at the end (`Done`), and which: the cycles
before this one are done, those behind it are kept, and in this one what is done reaches from
its first place to the place at hand (`Moving`). Cycles are told apart by the rest modulo
the greatest common divisor, which a movement does not change. That each rest is one cycle
only, so that the cycle at hand is done when it closes, is `WholeCycle`: a set of places that
is closed under the movement is closed under the divisor, which is a combination of movement
and length (Bezout). `GcdIs` is the recursive function `gcd` against the definition of a
divisor. `Rotated` excludes a `rotate_down` on a matrix that is not square, and so does the
invariant.

**The argument for the keys.** `KeysInv`: what a user has noted is nothing, or a half-key as the
tool makes it, and a key that is shown is that of the two strings beside it. The rest is
about functions. `CalcExpMod` goes through the bits of the exponent; after k of them its
`tmp` is the power to the number that the k highest bits spell (`ExpIs`), and a power of a power has the product of the exponents
(`PowersTwice`), so both users get the same (`ExpAgree`, `SharedIs`). No power
leaves the rest 0: of the numbers whose product with one below the prime is
divided by the prime, the least would divide the prime (`PrimeProduct`); so no word of a key is the zero
that `hex32bit_append_to_string` does not write. `Word32Is` is one word as it is written,
whatever zeros it begins with, `KeyIs` the string of all words, and `Reading` that the words are
found again at their places.

**The argument for the texts.** `TextsInv`: what is typed or pasted is ASCII, and every noted
conversion has shown what it says of its own input. `Grown` is what the encoder has
written after 3q + r bytes, with the bits of the letter that is not finished; one byte leads
from each to the next, and the 24 bit number of the RFC gives the same six bits
(`EncodeIs`). `SizeIs` and `DecodeIs` are the decoder on such letters: the length from the
padding, each group, and the last one, which reads nothing behind the text. `LinesWritten` is
`getline` on joined lines, by what it has cut after each character (`Part`), and `DecodingIs` puts
both together: a line of letters has no line end, so the lines that are read are the lines
that were written.

**In place of induction.** The library's induction theorems take a predicate as a parameter,
which the provers cannot instantiate. Two lemmas of `DataLemmas` are used instead: `Upwards` (a
set of numbers with 0 and, below n, the successor of each member has n in it) and
`GoingOn` (for a sequence of steps there is a function that takes them, one after the
other), which gives the recursive functions of the models their values.

Each of the inductive invariants was checked by TLC on small instances before it was proved: `RotateInv`
on all shapes up to 6 by 6 with rounds from -7 to 9, `KeysInv` and `TextsInv` on the
instance of `tools`.

Model-checked only:

- liveness (`Termination`, the fairness half of `ImplementsDigest`, `Ends`): not in this
  prover's reach. Every invariant and every other action property of a passing run is
  proved.

## 5. Disagreements found

Each is a run that TLC ends with a counterexample; `PROJECT.json` quotes the line.

| run | what happens |
|---|---|
| `accounts_json` | an account added after login and Back goes to a `users.json` the program never reads, with its folder beside it, and is gone after a restart (`gui.cpp:607`) |
| `aes_saved` | what is saved after decrypt is the text and more bytes behind it (`aes256.cpp:417`) |
| `stego_round_trip` | a payload of a multiple of three bytes comes back with another name and length (`steganography.cpp:494`) |
| `base64_url` | a text encoded with the URL standard to letters with a `_` cannot be decoded (`base64.cpp:248`, reached behind the test of a range only) |

The properties that hold say what is right in the same code: `AccountsKept` holds
in spite of `accounts_json` (the account was never in the file at the root),
`RoundTrip` in spite of `aes_saved` (the right bytes are at the front of the
payload), `InPlace` excludes by name the two cases in which an object cannot
encrypt again, `TextRoundTrip` in spite of `base64_url` (every text without `_`),
`SeekRecovers` and `DecryptRecovers` exclude by `Known` a file that ends like a padding,
and `SeekRecovers` (`NameUnsure`) and `SeekFindsFile` by name the two cases in which seek does not
find what hide wrote (a payload of a multiple of three bytes, a last byte that
starts in the last column).

Smaller ones met on the way have no run of their own: a file of whole blocks that ends
like a padding loses that end when it is decrypted (`aes256.cpp:406`; `RoundTrip` says
nothing of its length), which includes a file that was encrypted twice with one key;
`button_calc_hide` reports success also when no image was written, and where it should
open the image it opens the file to hide again (`gui.cpp:1949`); a file shorter than a
block is encrypted to an error message and an empty file, and seek that finds nothing
leaves one, too, when a name was typed; an output of the base64 tab that is pasted with
its line end is refused unless it is read line by line; the copy assignment of
`diffie_hellman` takes all three strings from the private key, and its move assignment
does nothing unless both objects are the same (`diffie_hellman.cpp:41` and `:60`); the
comment in `base64_decode` that `base64_dec_size` has checked the letters
(`base64.cpp:123`) is not so; getters of sha256 clear elements 1 to 8 of an
array of 8 for an unreadable input (`sha256.cpp:168`); the limit of the message
list, called a RAM budget of 1 GB (`sha256.hpp:45-46`), is 512 times that; copies
of an aes256 leave the start counter unset (`aes256.cpp:140`); `hide_file` does not
end on an image of fewer than 21 columns (`Stego!NarrowRow`) and writes into images of
at most 64 pixels that `seek_file` refuses; `save_this_file` with one piece returns
before it reloads the object and keeps its copy of the data; a write that fails
(a full disk) is reported as a success, so `SavedWhole`, `SavedInOrder` and `ReportedAsSaved`
exclude it; a first piece of the object's own data with the delete flag, which is the default
of `file_pointer`, frees the copy that later pieces are read from and that `clear_this` frees
again (`file_operations.cpp:486` and `:525`), and a pointer further into these data is not
copied (`:444`) and read unmapped; of the password fields behind the login, Back clears one, the
old password, and the others keep their text for the next user, where
`gui.cpp:743` says "clear login_successfully credentials labels" (`Others`); `..`, `../bob` and `users.json` are accepted
as names of users, and `save_new_user` deletes what they lead to (`gui.cpp:612`); a
`users.json` that cannot be opened stops the start like one that does not parse
(`gui.cpp:177`), and exceptions of `std::filesystem` end the program.

## 6. What the models leave out

- The arithmetic of the SHA-256 compression, of the AES rounds and of the key
  schedule: pure functions of bits with no control. The rotations, the counter and
  the padding, where the indices can be wrong, are modelled.
- A second `compute_hash` on one object, and the copies and getters of sha256.
- The 128 bit generators, copies and moves of `diffie_hellman`: nothing calls them.
- Of the tools: letters outside of ASCII, names with a folder in them, files that
  others remove between choosing and pressing, documents that already end like a
  padding, images of fewer than 22 columns, on which `hide_file` has its own
  defects (module `Stego`), and names of more than 255 letters. That encryption works in a
  private mapping, and so never reaches the input file, is `MAP_PRIVATE` in
  `file_operations.cpp:197`.
- Two instances of the program at once: nothing in the program coordinates them.
- How much of `users.json` a failing write leaves: the model has a file that does not parse
  (`WriteJsonFails`), which it is unless only the end of the last line is missing. Exceptions
  of the first `create_directory` and `current_path` end the process like a crash.
- Folders below the folder of a folder of a user, and what is outside `users/`: one place
  (`Elsewhere`), of which a later step may be anything that the model has.
- Negative rounds of the rotations, which the header allows and the conversion to
  `uint32_t` breaks: no caller passes one.
- Images for which rows times columns times channels overflows 32 bits.
- The colours and the bytes of a hidden file, beyond which bit is where; what `imwrite`
  does to an image that is not a PNG file.
- The Windows and `std::ifstream` branches of `file_operations`, the read-only flag of a
  mapping, and names too long to be stored inside the `std::string` itself (the
  assignments use the destroyed name again; a short one still holds its letters).
- wxWidgets, jsoncpp, OpenCV and the standard library, except for what the
  modelled code uses of them.

## 7. Running the checks

    tlc -config ShaPipeline.cfg MCShaPipeline
    tlapm ShaPipelineProofs.tla

`PROJECT.json` names the module and the configuration of each run. The longest run
is `tools` (1.2 million states, about two minutes); the proofs take some
minutes for each module.

## 8. Plan

In this order, each with its runs and mutants:

1. `ShaObject`: repeated `compute_hash`, copies and moves of a sha256, its getters.
2. An abstract specification of `FileOperations` (a file replaced as a whole, or
   appended to) and of `Stego` (seek returns what hide was given), with the
   conditions under which the code implements them; `FileTools` then uses these.
