# PolynomiaZ in TLA+

Models, model checks and proofs of the PolynomiaZ codec (`rust/`), its command
line, its encrypted containers and lossy codecs, its C interface (`clib/`) and
the filesystem prototype built on it (`pltzfs/`).

## The system

PolynomiaZ lays data out in tracks of 8 to 512 bytes, looks for a mathematical
pattern in each, and stores the parameters of the pattern instead of the bytes.
Groups of tracks with the same or linearly running parameters become one *meta
group*. Three container formats share the decoder: PLTZ (one blob), PLTS
(chunks, for data above 1 MiB) and PLTC (data transposed first).

| Part | State | Operations | What is hard | What makes it correct |
|---|---|---|---|---|
| PLTZ container (`codec.rs`, `platter.rs`) | tracks, entries, platters, decoded tracks | geometry search, analysis, splitting in platters, encoding, decoding | parallel analysis, HashMap order, a second analysis with another geometry, 16 bit indices and counts | decode(encode(d)) = d; no track stored twice |
| Detectors (`analyzer.rs`) | none | 22 detectors tried in order | boundaries: run of 255, middle byte, carries, last segment; cost checks | parameters give the track back; an entry is larger than the track by no more than its pattern allows |
| Track entries (`codec.rs` encode_track, decode_track) | position in the stream | one arm per pattern | entries carry no length: the decoder must consume what was written | round trip, in step |
| Cross-track optimizer (`cross_track.rs`) | entries by pattern | forming and decoding meta groups | HashMap order, steps that wrap a byte, savings checks | groups decode to the tracks they replaced, and pay |
| PLTS (`codec.rs` encode_chunked, decode_chunked) | compressed chunks, file, decoder position | parallel compression, storing, decoding | workers in any order, a file cut short, 16 bit chunk count | the data or an error |
| PLTC (`columnar.rs`, encode_auto) | best file so far | trying strides, decoding | padding, a stride of 16 bits, lengths of 32 | the data is found again |
| C interface (`ffi.rs`) | the caller's buffers and lengths | compress, decompress, two size questions | short buffers and refused files answered alike, retries, the size bound | one retry is enough, and tells the one from the other |
| pltzfs (`pltzfs/src`) | inodes, directories, data, bitmap, image | create_file, mkdir, lookup, sync | running out of space half way, spare bits, names taken twice or named `.` and `..`, HashMap order | blocks owned once, a tree, stable names, consistent images |
| Command line (`main.rs`) | files on disk, the run's place in its list of files | compress, decompress, test, analyze, visualize | runs that are killed, fail or overlap; the input is removed | the user's data is somewhere on the disk |
| Encrypted containers (`encrypt.rs`) | the file, the counter of the cipher | encrypt and decrypt of PLTE, PLTF, PLTD; metadata only | counters in step, counts and lengths of 16 and 32 bits, patterns without a serialisation | every reader sees the data |
| Image (`image.rs`) | fitted rows, entries | fit, group, write, read | a marker byte that is also a row number, rounding, HashMap order | every pixel within quality |
| Audio (`audio.rs`) | frames | fit each frame as an image of one row | lengths of 16 bits, signed samples fitted as unsigned | every sample within quality |
| Video (`video.rs`) | reference frames, encoded frames, decoded frames | I, P and B frames, motion vectors | both sides choose references by rules of their own; B frames are decoded last; planes the image codec misreads; casts to 16 bits | the error grows with the chain of references only |
| Visualisation (`visualize.rs`) | a picture on disk | draw | it is written without looking what is there | within the command line |

Calls go downwards: the command line, the C interface and pltzfs call
`encode`/`decode`; the encrypted containers take the analyzer's tracks and store
them in formats of their own; the image and audio codecs share the fit of one row,
and video stores its planes as images; `encode_auto` wraps `encode`; `encode` turns into
`encode_chunked` above 1 MiB, whose workers call `encode` for their chunks;
`encode` calls the analyzer for every track (on rayon's workers) and the
optimizer once. There is no state between calls but files; what concurrency there is lies
inside a call, or between two runs of the command on the same files.

## The modules

| Module | Models | Used by |
|---|---|---|
| `LosslessChannel` | what any compress/decompress pair promises: the data, once, or an error if the file was damaged | `Chunked`, `Pltz` (refinements) |
| `Pltz` | `encode`, `best_geometry`, `analyze_platter`, `cross_track_optimize`, `split_platters`, `decode` | `MCPltz`, `PltzProofs` |
| `Detectors` | every `detect_*` and `analyze_track`, byte by byte | `TrackCodec` |
| `TrackCodec` | `lay_out`, `encode_track`, `decode_track` of one track | `MCTrackCodec`, `CodecProofs` |
| `CrossTrack` | `cross_track.rs` with the parameters of the entries | `MCCrossTrack`, `CrossTrackProofs` |
| `Chunked` | `encode_chunked`, `decode_chunked`, a writer that dies | `MCChunked`, `ChunkedProofs` |
| `Columnar` | `columnar.rs`, `encode_auto`, the search of `--best`, the PLTC branch of `decode` | `MCColumnar`, `CodecProofs` |
| `Ffi` | `ffi.rs` and a C caller | `MCFfi`, `FrontEndProofs` |
| `PltzFs` | `fs.rs`, `storage.rs`, `inode.rs`, `dir.rs` | `MCPltzFs`, `PltzFsProofs` |
| `Cli` | `main` and `process_file` of `main.rs`, the file `visualize.rs` writes | `MCCli`, `FrontEndProofs` |
| `Encrypt` | `encrypt.rs`: the three containers and their four readers | `MCEncrypt`, `EncryptProofs` |
| `LossyRow` | the lossy fit of one row, shared by image and audio | `Image`, `Audio` |
| `Image`, `Audio` | `compress_*` and `decompress_*` of lossy PLTI and PLTA | `MCLossy`, `LossyProofs` |
| `Video` | `encode_video` and `decode_video` | `MCVideo`, `LossyProofs` |

Each module is a level of the same decoder with the level below abstracted to
what was checked there: `Chunked` and `Columnar` take a blob to decode to what
it was made of (`Pltz`), `Pltz` takes a track entry to decode to its track
(`TrackCodec`), and keeps of a group its kind and first member (`CrossTrack`). `Cli`
takes a whole archive to decode to its data and a cut one to be refused, which is what
`Pltz` and `Chunked` show. `Video` takes a plane that went through the image codec to
be within quality of what it was, or to be misread, which are the two outcomes `Image` has.

**Pltz.** Data is counted in cells of 8 bytes, the smallest sector size, so that
every candidate geometry cuts between cells. A cell is constant, a ramp or
incompressible, and `PatternOf` computes what `analyze_track` answers for
tracks of such cells; the costs are those of `estimate_track_size`. One action
per step that another worker or the HashMap may reorder: `AnalyzeTrack(t)` is a
rayon worker finishing track t, `OptimizePattern(p)` one round of
`for (_tag, tracks) in by_type`. `SplitPlatters` is the whole of
`split_platters` after that, second pass included. `ReadEntry` reads one
entry; an entry made with another sector size than the header's is read as the
decoder would: a constant fills a track, anything else is a misreading, which
the model ends as a failure (the decoder gets an error, a panic or wrong data;
none is the data). `CutShort` is a writer that died in `fs::write`: the file ends at
`cutAt`, in the header, in that of a platter or in an item. Inside an item every read of
`decode_track` and `decode_meta_group` is compared with the end or is an index that
panics, so an item that is not whole is never stored (`ReadTruncated`). The refinement
mapping to `LosslessChannel` has `intact` false once the file is cut.

**Detectors and TrackCodec.** A detector is an operator that answers the set of
the parameters it found. LinearF64, DeltaF64, Periodic, Poly and Exponential
compute in floating point and accept only parameters from which they rebuilt the
track byte for byte; they are an oracle that may accept any track under their
guards (length, cost, first bytes). So nothing is shown about their arithmetic,
nor about the difference between the analyzer's and the decoder's inverse
transform. 32 bit words are pairs of 16 bit halves.

**CrossTrack.** The same optimizer as in `Pltz`, over entries with the parameters
themselves. `Analyze(p)` adds any track the detectors can answer.

**Chunked.** Bytes are numbered so that a swapped, doubled or missing one shows.
`CutShort` is a writer that dies in `fs::write`. The refinement mapping to
`LosslessChannel` has `intact` false exactly while the file is shorter than
what the encoder made.

**Columnar.** Vectors are a length and a function from 0; the transposition is
index arithmetic. `Sizes` stands for what the inner encoder makes of it, so every
choice of `encode_auto` occurs.

`FindBest` is the search of `--best`: the plain file, the strides and the chunk sizes are
compared by what a fast compressor makes of them, so any of them may win.

`Reread` is what the chunked format makes of the inner data when it is long: as many chunks as
the 16 bit count says, cut at the 32 bit length. The wrapper's own length and stride are cast
too. `FieldsHold` says that the fields hold what is stored in them.

**Ffi.** The size of a file of incompressible bytes is computed from the format.
The caller's actions are external: they follow `clib/README.md` and
`clib/test_pltz.c`, with buffers of other sizes and a retry added. `decoded` is what decode
makes of the file: the data, less of it (a field has wrapped), or an error. -1 means a refused
file or a short buffer; only the second changes the length, which is how a caller tells them
apart (`Reallocate`, `GiveUp`).

**PltzFs.** The bitmap is the set of its 1 bits, whole bytes of them. `Granted(n)` is what n
calls of `alloc_block` answer, each the first free block: block k is the free one with k - 1
free ones `Before` it. `Marked` is what they set: a call that finds no block below
`total_blocks` has set every spare bit on its way. `Sync` writes the five platters as one
record; `InodeBytes`, `DirBytes` and `InodeFromBytes` are what a record on the platter keeps:
its size and count of blocks, six addresses of an inode, 248 bytes of a name (`Shortened`).
Nothing in the prototype reads the platters back; `EntriesOf` and `LookupOnPlatter` are a reader
who knows the format. Any name may be `.` or `..`: a directory begins at an entry `.` that is
followed by a `..` of no younger inode (`BeginsAt`), which entries made by callers never are,
since they get older inodes first.

**Cli.** A process is a run of the command: its options, its list of paths, the place
it has reached. Every system call is a step, `fs::write` two of them (the file is created
or cut; its bytes are there), so runs interleave and are killed between any two. A file
holds a version of the user's data, plain or as an archive, or is `Cut`. `kept` is what
the user counts on: what he wrote and neither overwrote himself nor gave up by `-f`.
Removing a file that another process has open leaves that process writing to a file
without a name (`linked`).

**Encrypt.** Track i of the data is the number i; its parameters are the track they stand for
and their length. Deciphering with another key or counter gives `Garbage`, and a track made of
garbage is garbage or a panic. The casts are modelled: to 16 bits (track index, track count,
lengths of both streams) and to 32 bits (length of the data, `LengthOf`); a stream longer than
its length field reaches the decoder as a prefix. `ParamsEnd[i]` is where the parameters of
track i end in theirs. The metadata reader answers tracks or a panic (`view`).

**LossyRow, Image, Audio.** A fit is an oracle: it may predict any values, in halves, that
pass the comparison with quality in the code; rounding, clamping and storing follow the
code. The mean is computed. Groups are formed by equal fits and written in any order; the
decoder knows a group by the first byte of its entry (`Base - 1`), as in the code. An audio
frame is an image of one row behind a 16 bit length. `samples` are the unsigned numbers the
image codec sees; `Sample` is the signed value of one.

**Video.** One luma plane in one row and one chroma plane. The encoder takes differences from
original frames and the decoder adds them to decoded ones, each with its own rule for the
reference; the two passes of the decoder are steps per frame. Motion vectors are
searched as in the code, in one dimension. A frame in `misread` has a plane that the image
codec does not read back (more than 255 rows, row 255 in no group): decoding it is an error, a
panic, or any planes of its size (`MayFail`, `Decodings`), and the frames after it are
decoded from those.

## What is checked

Passing runs:

| Run | Instance | Shows |
|---|---|---|
| `Pltz_safety` | all files of up to 4 cells over six cells, ramps of 4 to 6 constant cells, ten files with groups or two platters and the file of the second pass, each whole and cut everywhere | `LosslessWhenClean`, `TrackStoredOnce` |
| `TrackCodec_safety` | tracks of 32 bytes: designed for each detector, with a byte changed, halves combined | `RoundTrip`, `InStep`, `PaysOff` |
| `CrossTrack_safety` | every platter of up to 5 tracks over 14 entries | `GroupsExact`, `AllTracksDecoded`, `GroupsNeverLarger` |
| `Chunked_safety` | 0 to 6 bytes in chunks of 2 or 3, blobs of two lengths, the file cut at every byte | `AcceptsOnlyTheData`, `CutFileRefused`, refinement of `LosslessChannel` with liveness |
| `Columnar_safety` | 1 to 13 and 20 to 27 bytes, every pair of strides 0 to 9, fields of 8 and 24 values | `StrideUndone` |
| `Ffi_calls` | 34 lengths, files decoded whole, in part or refused, buffers of four sizes | `OneRetryIsEnough`, `Delivered` |
| `PltzFs_safety` | 5 blocks, 3 files or directories, five names: `.`, `..`, one cut to `.` and two cut alike, three sizes | `BlocksOwnedOnce`, `BitmapExact`, `DirectoriesFormATree`, `ImageConsistent`, `LookupStable` |
| `Cli_safety` | two processes and two runs, two files (one with the name of the other's picture), two versions, 10 disks, 7 command lines, 3 lists of paths | `NeverLost`, `CompressorsNeverLose`, `ExitZeroComplete`, `EveryRunEnds` |
| `Encrypt_safety` | every list of up to 4 tracks of four kinds of patterns, lists of 15 to 21 and 31 to 36 tracks, fields of 16 and (the length) 256 values | `DecryptsWhatFits`, `ReadersSeeTheData` |
| `Lossy_safety` | 4 bit pixels, quality 1 and 2, images of up to 8 rows, recordings of up to 12 samples, fields of 9 values | `WithinQuality`, `MisreadExactlyThere` |
| `Video_safety` | 3 bit pixels, lossy videos of up to 5 frames, lossless ones of up to 10, groups of 0 to 9, fields of 8 values, one frame of three misread | `ErrorDriftsWithTheChain`, `DecodedToTheEnd` |

Each also has a type invariant.

One run finds the code at odds with its documents: in `Pltz_second_pass` the second pass of
`split_platters` writes entries of another geometry, and a 96 byte file is lost (`Lossless`).

Eight more configurations are counterexamples to be run by hand, one property each. All but the
last contradict a document or a comment:

| Configuration | Property | What happens | What is said |
|---|---|---|---|
| `Pltz_track_index.cfg` (`MCPltz`) | `Lossless` | more than 65536 tracks in a blob (up to 1 MiB of 8 byte tracks): indices repeat | `SESSION.md:13` "must exactly reproduce every byte" |
| `Chunked_count.cfg` (`MCChunked`) | `AcceptsOnlyTheDataOfAnySize` | more than 65535 chunks: the count wraps and the decoder accepts the file with data missing; with the default chunks of 64 KiB this is data of 4 GiB less one chunk | `doc/WIRE_FORMAT.md:315` "Effective maximum file size: unlimited" |
| `Columnar_wide.cfg` (`MCColumnar`) | `EveryStrideUndone` | a record size (`-r`) of 65536 or more is stored cut, and the decoder undoes another transposition | `README.md:249` "of the given byte length" |
| `Ffi_max_size.cfg` (`MCFfi`) | `MaxSizeSuffices` | the bound on the compressed size is exceeded by 10028 incompressible bytes | `clib/pltz.h:47` "Use this to allocate the output buffer for compression." |
| `Encrypt_fallback.cfg` (`MCEncrypt`) | `EveryTrackComesBack` | a track of a pattern without a serialisation is decrypted, with Ok, to zeros | `encrypt.rs:286` "Fallback: store raw track" |
| `Lossy_marker_row.cfg` (`MCLossy`) | `EveryPixelWithinQuality` | row 255 in no group is read as a group | `image.rs:29` "max allowed error per pixel" |
| `Lossy_full_scale.cfg` (`MCLossy`) | `EverySampleWithinQuality` | a 16 bit sample at full scale is heard at the other end of the range | `audio.rs:32` "max error per sample" |
| `PltzFs_space.cfg` (`MCPltzFs`) | `RefusedOnlyWhenFull` | a file that did not fit takes all the remaining space with it | |

### What the properties leave out, because the code does not keep it

Several properties name an exception. Each exception is something the code does, found while
the property was stated without it:

- *Command line.* `NeverLost` is about runs that do not overlap: the output is looked for
  long before it is written, and two runs that overlap, one of them decompressing, can lose
  everything. A run that is killed leaves a cut output behind, which stops the next one
  without `-f`. `--visualize` overwrites a file with its picture's name, with and without
  `-f` (`pictured`). A decoder that panics and `-C 0` end the run with code 101 and leave
  the rest of the files (`ExitZeroComplete` is about 0).
- *Track entries.* DELTA takes a byte more than its track, compressed raw data two, a wide ramp
  19 bytes also on a track of 8 or 16: their cost checks compare with something else
  (`MostBytes`).
- *PLTC and PLTS.* Data of 2^32 bytes and more, or of more chunks than 65535, comes back shorter
  with Ok (`FieldsHold`, `FitsHeader`).
- *Encrypted containers.* A track whose pattern `serialize_params` has no arm for comes back
  as zeros, and decryption answers Ok. More than 64 KiB of parameters, or 65536 tracks,
  cannot be decrypted. The empty PLTE file is a PLTZ header and refused (`FieldsFit`). Data of 4
  GiB and more may be decrypted, with Ok, to a handful of its tracks, since the decoder asks
  for no more than the length that is left has. `decrypt_metadata_only` panics of empty data.
- *Image and audio.* A row 255 (or 511, ...) outside a group, and a raw row longer than
  65535 bytes, make the decoder lose its place (`Unreadable`). Samples of 16 bits are
  fitted as unsigned numbers, in which the highest and the lowest are neighbours: within
  quality of full scale a sample may be heard at the other end (`Kept`). Of a frame wider than
  65535 samples those past the width are heard as 0, and of more than 65535 frames as many are
  decoded as the count says.
- *Video.* A P frame adds its loss to its reference's. A B frame is coded from the next I
  frame but decoded from the next frame that is no B (`LosesItsReference`). A difference of
  more than half the range is clamped (`Representable`). A plane of more than 255 rows may be
  misread (`misread`), and then there is no bound for its frame and those that come from it.
  Odd sizes and a group length of 0 panic; frames past 65535 are not announced.

Two disagreements have no run of their own. The comment `columnar.rs:7` calls the transposition
its own inverse, which it is not; the code uses `columnar_untransform`. And
`SESSION.md:41` says patterns are tried in order of compactness, while a track taken
as RLE may have a smaller DELTA_RLE entry; this costs bytes, not correctness.

### Bounds

- `U16` and `U32` are the real ranges except where a run is about their
  overflow; there they are small (from 4 values), which moves the limit, not what
  happens at it.
- `MaxRun` (255) is 9 in `TrackCodec_safety`, so that runs of tracks of 32 bytes are
  cut; `UniqueLimit` has its real value. All 22 patterns and raw tracks, plain and
  compressed, occur in the run.
- Four entries are the smallest group; five tracks give groups with a track of
  another pattern before, between and behind, and both signs of the step.
- Two chunks and a rest are enough for a chunk to be first, middle and last.
- `MaxInodes` bounds `PltzFs`: a directory, a file in it, and the file that does not fit, or
  three entries that share a name or are called like those the directory begins with.
  `DirectBlocks` (6) is 2, so that the largest file has a block too many.
- `MaxRuns` bounds `Cli`: one run leaves what the next one meets, or both overlap. Two
  processes are enough, since a third one meets the same disk; the states that crashes of
  earlier runs leave are also reached by the disks that `MCCli` starts from.
- In the lossy codecs and in `Encrypt` a pixel has 3 or 4 bits and fields that are cast have
  8 to 16 values: lists and rows on both sides of the limit are among the inputs.
- A video of five frames has, with groups of 3 or 4, two I frames, P frames in between and
  B frames on both sides of either. Lossless ones are longer: there only
  references and casts matter. Misread frames have one pixel of each plane: what they are decoded
  as is any of 64 frames.
- `Threshold` and `ChunkSize` of `Ffi_calls` are scaled by 2^12, `Ffi_max_size` uses
  the real ones.

### Fairness

`Pltz`, `Chunked` and `Ffi` state weak fairness of their next steps: the calls
are sequential code with bounded loops, and rayon runs every task it was given.
`Chunked` does not assume that the writer dies (`CutShort` is not fair), and
encoder and decoder are fair separately. `Cli` states weak fairness of each process's
steps: the system schedules every process it has not killed; launches, crashes and the
user are not fair. `Chunked_safety` (through `LosslessChannel`), `Ffi_calls`
(`Delivered`) and `Cli_safety` (`EveryRunEnds`) check liveness. The other modules state
none: they are loops over data that is there, and end.

Deadlock is not checked: every system but the filesystem is one call, or a pair of
calls, that ends, and the filesystem stops at its bound `MaxInodes`.


## What is proved

TLAPS checks these for every value of the constants that satisfies the module's
assumption. Each theorem of the form `Spec => []P` follows from one inductive
invariant of its module, `IInv` or, where a module proves about several components, one
for each (`CodecInv` and `WrapperInv`; `ImageInv`, `AudioInv` and `VideoInv`; `FfiInv`): it
holds initially, every step keeps it (with one lemma per action that is not trivial), and it
implies P. With these, every invariant and every action property that a passing run
checks is a theorem; what is left to TLC alone is liveness.

| Theorem | Says |
|---|---|
| `PltzProofs!AlwaysLossless` | `LosslessWhenClean` for files of every length and cell, any sector sizes, cut anywhere |
| `PltzProofs!NeverStoredOver` | `TrackStoredOnce` |
| `PltzProofs!ImplementsChannel` | the safety half of the refinement of `LosslessChannel`, while `Clean` |
| `CrossTrackProofs!GroupsAlwaysExact`, `!AllTracksAlwaysDecoded`, `!GroupsAreNeverLarger` | the three properties of the optimizer, any number of tracks |
| `ChunkedProofs!AlwaysAtChunkBoundary`, `!AlwaysAcceptsOnlyTheData`, `!CutFileAlwaysRefused` | the three properties of PLTS, any chunk size, any number of chunks |
| `ChunkedProofs!ImplementsChannel` | the safety half of the refinement of `LosslessChannel`, while the header's fields are wide enough |
| `CodecProofs!EntriesRoundTrip` | `RoundTrip`: every track of 8 to 512 bytes is decoded as it was, whichever of the 22 patterns it is stored as, for every limit of a run |
| `CodecProofs!EntriesInStep`, `!EntriesPayOff` | the decoder consumes what was written; an entry of n bytes of track has at most n, or n + 1 (DELTA), n + 2 (compressed raw data), 19 (a wide ramp) |
| `CodecProofs!StridesUndone` | the transposition is undone for every stride below 2^16 and every length, while the fields hold the length and the count of chunks; longer data comes back shorter |
| `LossyProofs!QualityIsKept` | `WithinQuality`, with its cases for full scale and for the counts of 16 bits: images and recordings of every size, any quality, any fit that passes the code's check, any order of the groups |
| `LossyProofs!PlaceIsLostExactlyThere` | `MisreadExactlyThere`, for every range of the fields |
| `LossyProofs!EveryFrameIsDecoded` | `DecodedToTheEnd`, any number of frames, any group length, whatever misread planes are taken for |
| `LossyProofs!ErrorsOnlyDrift` | `ErrorDriftsWithTheChain`, chains of every length without a misread frame or an overflow |
| `FrontEndProofs!OneRetryIsAlwaysEnough` | one refused call is enough to know the length, or that the file is refused |
| `FrontEndProofs!AlwaysNeverLost` | `NeverLost`, any number of files, versions, command lines, processes and runs, killed anywhere |
| `FrontEndProofs!CompressorsAlwaysKeep` | `CompressorsNeverLose`, any number of compressors at once |
| `FrontEndProofs!ExitZeroAlwaysComplete` | `ExitZeroComplete`, command lines of every length |
| `PltzFsProofs!BlocksAlwaysOwnedOnce`, `!BitmapAlwaysExact` | blocks and bitmap, any number of blocks, bytes of any width, files of any size |
| `PltzFsProofs!AlwaysATree`, `!LookupAlwaysStable` | directories form a tree; a name once found keeps its inode (an action property) |
| `PltzFsProofs!PlattersAlwaysConsistent` | `ImageConsistent`: what a sync wrote is read back as the filesystem, with each file's size and data, also after later calls and whatever names callers use |
| `EncryptProofs!AlwaysDecryptsWhatFits` | decryption fails only if a field is too small, and of data below the range of the length field does not succeed then |
| `EncryptProofs!ReadersAlwaysSeeTheData` | what all keys, and the outer key alone, show, for any number of tracks, and that the latter panics only of empty data or a stream that was cut |
| `TypeCorrect` of six modules, `EntryTypes`, `WrapperTypes`, `FfiTypes`, `LossyTypes`, `VideoTypes` | the type invariant of every run |

**Assumptions.** `PltzAssumption`, `CrossTrackAssumption`, `ChunkedAssumption`,
`ColumnarAssumption`, `FfiAssumption`, `CliAssumption`, `PltzFsAssumption`, `EncryptAssumption`,
`SectorsAssumption`, `CodecAssumption`, `LossyRowAssumption` and those of `Image`, `Audio` and
`Video` give the constants their types and ranges: sector and chunk sizes are positive, a
compressed chunk has a length of 1 to `U32 - 1` (`doc/WIRE_FORMAT.md:314`), no file's picture
has the file's own name, the names `.` and `..` are short enough not to be cut, a count of 16
bits exceeds 4, a track has a multiple of 8 bytes from 8 to 512, the largest pixel is odd (255),
the placeholders `None`, `Absent`, `Garbage` and `Refused` are no data. `MaxInodes` is at least
1: the root exists. TLC evaluates each in the runs.

**Why the invariants are what they are.**

- *Pltz.* That the decoder's answer is the data says nothing about the steps before it. `IInv`
  carries one idea through all phases: every track is somewhere. While the encoder pushes and
  groups, each pushed track is held in `by_type`, alone, in a group or in the raw platter
  (`Held`); in the stream it is in the items of some platter (`StreamInv`); while the decoder
  reads, it is stored or still to come (`Unread`). Entries are in track order, so the sort of
  `split_platters` changes nothing, and the number of lists' elements never exceeds the number
  of pushed tracks, which is why no u16 count wraps while `Clean` holds. Where the file is cut
  lies ahead of the decoder (`CutInv`), so it cannot reach the end without meeting the cut; the
  count of a platter is never less than its items, which is what makes this true. `GroupOfList`,
  `AllSameExact` and `ConstLinearExact` show that a group decodes to the tracks it was formed
  from.
- *CrossTrack.* The same coverage (`Waiting`, `Alone`, `Grouped`), with
  `ExactGroup`: start and step give back each parameter, by `Progression`.
- *Chunked.* The decoder's offset must be related to lengths it has not read yet:
  `Position(chunk)` is defined by recursion over the chunks, `PositionUnfolds` shows
  that the recursion has a solution, and `IInv` says that the decoder stands at
  `Position(chunk)` with `Prefix(chunk)` of the data. A cut file ends below
  `Position(NumChunks)`, so some chunk or header is not whole.
- *TrackCodec and Detectors.* `CodecInv` only says, along the steps, that the parameters
  are among those the detectors find (`Found`) and that the entry is as long as
  `WireSize` says; the work is in two lemmas for each pattern. `...Priced` says that the
  detector's own cost check keeps its entry within `MostBytes` and that the decoder
  reads it at its size; `...Restored` that the decoder's arithmetic gives the bytes back: a progression
  modulo 256 (`Progression`) or of pairs of half words with carries (`WordProgression`), running
  sums (`SumsOfSteps`), the greedy scan of runs (`RunsAre`, undone by `ExpandRuns`), bits
  shifted in one at a time (`FromBitsIs`, `BitsOfByte`), the decoder's ladder of differences against the
  rows of the analyzer's table (`DiffTableRestored`). Both sides are recursive functions; that each has
  a solution (`RecursiveFunction`), and that what they compute agrees at every index, is
  shown by looking at a least index where it does not (`Induction`). The five floating point
  patterns are the oracle's: there the theorems show only that what it accepted is what is
  decoded.
- *Columnar.* `UntransformUndoes` is about the index arithmetic alone (the row and
  column of a position); the invariant says that the best
  file so far, of whichever stride, is made that way (`GoodFile`).
- *Ffi.* What the caller knows about the buffer, by the number of its calls
  (`RetryInv`). `SectorsIsCandidate` shows that `best_geometry`'s comparison has a
  first smallest candidate.

- *Cli.* `NeverLost` is no invariant of single steps: the step that removes the input is
  safe only because of what was seen and written five steps before. `OneByOne` says that without
  overlap one process lives at a time (`Solo`) and what it may rely on, by its place
  (`Relies`): from `Made` on its input is on the disk and holds the version it has in
  memory; `Checked` without `-f`, its output's place is empty; `Open`, its output is cut and nobody
  else's; `Written`, its output is what it has in memory. For compressors that overlap,
  `SideBySide` says instead that once one of them found no output, the user counts on
  no other version of that file, and that a version whose input is removed is in
  the output or held by a process that is about to write it (`Holds`): another compressor
  may have cut the output again. `ExitZeroComplete` needs that the exit code is 0 only
  as long as every file before the current one was done (`RunOK`).
- *PltzFs.* `TablesOK` says that the directories are exactly the inodes that are directories,
  and that no entry names an inode that is still to come; without this a new inode could have a
  parent already. That `Granted(n)` is n different free blocks rests on every rank below the
  number of free blocks being taken by one of them. This is shown without induction: ranks are
  different and smaller than the number of blocks, and the pigeonhole principle
  (`FS_PigeonHole`) leaves none out. The second state of the bitmap, everything marked, is
  absorbing. `ImageConsistent` compares platters that are written once with tables that go on
  growing. Two more facts make it inductive. `EntriesOK`: the entries of a directory behind `.`
  and `..` are in the order of their inodes, each inode's count of blocks is the length of its
  list, the files are the inodes without a directory. The order is what makes a reader find, of
  several names that are cut alike, the oldest (`NamesRead`). `ImageFits`: what is on the
  platters is still in the tables, since no call takes anything back (`ImageKept`). For the sync
  itself, `SortedIs` and `FlattenIs` say where each inode's entries are in the flat list of
  platter 1, and `CutOut` that cutting where a directory begins gives them back: an entry `.` or
  `..` that a caller made has a younger inode than the entries before it (`BeginsAt`), and `..`
  of a directory an older one or its own.
- *Image and audio.* `ImageInv` follows the rows: until they are written each is in one fitted
  row, then in exactly one entry (`Writing`); the decoder has read the entries before
  `pos`, and the rows in them are within quality (`Decoding`). That a value which
  passed the comparison with quality stays within it needs no luck with rounding: pixels and
  quality are whole numbers and predictions are rounded (`PixelWithin`); clamping only moves
  a value towards the pixel; the mean is `MeanRounds`. `AudioInv` adds where the next frame
  starts, by lengths that are still whole (`Whole`).
- *Video.* The encoder's half, `Coding`, says of each entry of the file from which frame it was made,
  by the encoder's rule; the decoder's half that every frame decoded so far is
  `GoodAs` its original: of its size, and off by at most quality for each frame of its
  chain, unless one of them overflowed or its reference is another. `ReferencesOf` relates the two rules
  for the reference, and `ChainGrows` the chain of a frame to that of the frame it was coded
  from: one longer, since the references lie before it or are I frames.
- *Encrypt.* Both properties are about the end; `SlotsInv` relates the decoder in the middle of
  the file to the encoder: its counter is the one used for the track it is about to take, and if
  the fields fit the tracks up to `pos` are what they were and the others missing. If the length
  fits and another field does not, the count is too small for the last track, or some slice does
  not fit the length: `ParamsEnd[pos]` never exceeds what the length field says. That the
  parameters of all tracks do fit when the field does needs `ParamsEndMonotone`, and that
  `ParamsEnd` exists, as a solution of its recursion, `EndsExist` (by a least counterexample, as
  in *Chunked*).

The invariants of `Pltz`, `Chunked`, `Cli`, `PltzFs` (with `EntriesOK` and `ImageFits`) and `Encrypt`
were also checked with TLC on the instances of their safety runs; those of the track codec, the lossy
codecs and the video quantify over sets that TLC does not enumerate.

**Only model-checked.** Liveness (`Delivered`, `EveryRunEnds`, that of `LosslessChannel`, of which
the safety half is proved for `Chunked` and `Pltz`): it is out of the prover's reach. The
counterexamples run by hand. Whatever the floating point detectors compute is
neither: it is an oracle in the model.

## What is not modelled, and why

- The arithmetic of the floating point detectors (see `TrackCodec`): TLC and SMT
  have no doubles, and the code guards it by an exact comparison.
- Deflate, zstd and brotli: taken to give back what they were given.
- PLTC files cut short: ten more bytes before a PLTZ file, refused below ten bytes.
- *Command line.* Standard input (its output goes to standard output, no file is changed),
  printing, the number of threads, `auto_chunk_size`. A power cut that loses data the
  system had accepted: `fs::write` is not followed by a sync, and the model's crash is
  that of a process. `-C 0` panics on a file that is not empty; an empty one is encoded.
- *Encrypted containers.* The key stream, the derivation of keys and what a wrong key
  gives; parameters as bytes.
- *Lossy codecs.* The least squares fits, which are an oracle; the planes and channels of
  an image, which are independent of each other; quality 0 of image and audio, which is a
  PLTZ file; in video, the conversion of colours, the second dimension of motion, the
  difference of Cb and Cr, which planes the image codec misreads (an input) and what from
  them (anything), and lengths of frames and planes of 2^32 bytes.
- `visualize.rs` but for the file it writes, and the Python programs: they only draw,
  or only measure.
- In pltzfs, owners, times, link counts and permission bits of an inode: written to the
  image, and no operation reads them. Which of the two data platters a file is on is not written
  to the image, and no reader can know it. `free_block` and `deserialize` are called by nothing.

## Plan

Done, in this order: `Pltz`, `Detectors` and `TrackCodec`, `CrossTrack`, `Chunked` over
`LosslessChannel`, `Columnar`, `Ffi`, `PltzFs`; proofs of `CrossTrack`, `Columnar`, `Pltz`,
`Chunked`, `Ffi`; then `Cli`, `Encrypt`, `LossyRow` with `Image` and `Audio`, `Video`,
`FindBest`, the reader of pltzfs images, PLTZ files cut short with their proof, and `Pltz` as
an implementation of `LosslessChannel`; then the proofs of `Cli`, `PltzFs` and `Encrypt`; then
those of `TrackCodec` with every detector, of the lossy codecs and the video, and of
`ImageConsistent`.

Left, for whoever goes on:

1. The floating point detectors, by a model of rounding that TLC can evaluate, instead of the
   oracle; in particular the analyzer's and the decoder's inverse transforms, which are two
   pieces of code.
2. `Image` and `Video` in two dimensions and more than one plane, with the image codec in the place
   of the oracle in `Video`.
3. `Pltz` over `TrackCodec` as a composition, so that the abstraction of an entry to its track
   is a refinement instead of two theorems side by side.
