-------------------------------- MODULE Embed --------------------------------
(* The generator of embedded files (embed.hpp, with the runner of          *)
(* embed.in.cpp): it merges the files that CMake has registered, compresses*)
(* them, and writes a header, an assembly file and the bytes.  A program   *)
(* that includes the header decompresses the bytes and cuts the files out  *)
(* again (decompress_blob, and the example of the documentation).          *)
(*                                                                         *)
(* The generator is run again and again, after changes of the files and of *)
(* what is registered; it may fail, or be killed, at any point.            *)
EXTENDS Integers, SequencesExt

CONSTANTS
  Bytes,        \* what files, names and paths are made of
  NUL, Semicolon,  \* two of them
  NameOf,       \* NameOf[c]: the bytes of the name of compression c
  Paths,        \* the paths of files, as sequences of bytes
  Contents,     \* what a file may hold
  Missing,      \* for a file that cannot be read
  Short,        \* for an output file that is cut off
  Configs,      \* what may be registered with CMake
  MaxBuilds,    \* bound on the runs of the generator
  EmbedFaults   \* "zstd": compression fails; "io": no directory or no space;
                \* "kill": the generator is killed

(* What CMake lets through: a name is not empty, holds no NUL, and no      *)
(* semicolon, which would make two names of it (rtcx_embed_blob requires   *)
(* an id, a file and a destination; rtcx_embed_includes makes its own).    *)
Text(bytes) == \A k \in DOMAIN bytes : bytes[k] # NUL
Word == {w \in Seq(Bytes) \ {<<>>} : Text(w) /\ \A k \in DOMAIN w : w[k] # Semicolon}

ASSUME EmbedAssumption ==
  /\ NUL \in Bytes /\ Semicolon \in Bytes
  /\ Paths \subseteq Word
  /\ Contents \subseteq Seq(Bytes) /\ Contents # {}
  /\ Configs # {}
  /\ \A c \in Configs :
       /\ c.files \in Seq([id : Word, path : Paths, dest : Word])
       /\ c.dirs \in Seq(Word)
       /\ NameOf[c.compression] \in Seq(Bytes) /\ Text(NameOf[c.compression])
       /\ \A d \in Configs :
            NameOf[c.compression] = NameOf[d.compression] => c.compression = d.compression
  /\ MaxBuilds \in Nat

Writing == {"header", "asm", "bin"}

VARIABLES
  config,   \* the registered files, arrays and include directories
  onDisk,   \* onDisk[p]: the content of the file with path p, or Missing
  stage,    \* where the generator is, "rest" between its runs
  loaded,   \* the contents of the files it has read
  out,      \* out[f]: what output file f holds, Missing, or Short
  torn,     \* the output files are not those of one complete run
  built,    \* what they have been made of
  builds    \* the runs of the generator so far

embedVars == <<config, onDisk, stage, loaded, out, torn, built, builds>>

-----------------------------------------------------------------------------
(* Lists of bytes one after another.                                       *)

(* Terminated(lists, mark)[k] is what k passes of a loop make that appends *)
(* one list after the other, and the mark after each.                      *)
Terminated(lists, mark) ==
  LET merged[k \in 0..Len(lists)] ==
        IF k = 0 THEN <<>> ELSE merged[k - 1] \o lists[k] \o <<mark>>
  IN  merged

(* The lists, as CMake writes them into the runner: a semicolon after each *)
(* item but the last.                                                      *)
Joined(items) ==
  IF items = <<>> THEN <<>>
  ELSE Terminated(items, Semicolon)[Len(items) - 1] \o items[Len(items)]

(* The loop of split_string, from the place a token starts at.             *)
Tokens(str, delimiter) ==
  LET delimiters(start) == {p \in start..Len(str) : str[p] = delimiter}
      tokens[start \in 1..(Len(str) + 1)] ==
        IF delimiters(start) = {} THEN <<SubSeq(str, start, Len(str))>>
        ELSE LET pos == Min(delimiters(start))
             IN  <<SubSeq(str, start, pos - 1)>> \o tokens[pos + 1]
  IN  tokens

split_string(str, delimiter) ==
  IF str = <<>> THEN <<>> ELSE Tokens(str, delimiter)[1]

Listed(items) == split_string(Joined(items), Semicolon)

file_ids == Listed([k \in DOMAIN config.files |-> config.files[k].id])
file_paths == Listed([k \in DOMAIN config.files |-> config.files[k].path])
file_dsts == Listed([k \in DOMAIN config.files |-> config.files[k].dest])
include_dirs == Listed(config.dirs)

-----------------------------------------------------------------------------
\* Files without anything between them.
MergedBare(bytes_lists) == FlattenSeq(bytes_lists)

(* merge_bytes_with_null_terminators: the bytes, and where each list is. *)
Merged(bytes_lists) == Terminated(bytes_lists, NUL)[Len(bytes_lists)]

\* Offsets that do not count the terminators.
RangesBare(bytes_lists) ==
  [k \in DOMAIN bytes_lists |->
     [offset |-> Len(MergedBare(SubSeq(bytes_lists, 1, k - 1))),
      size |-> Len(bytes_lists[k])]]

Ranges(bytes_lists) ==
  [k \in DOMAIN bytes_lists |->
     [offset |-> Len(Terminated(bytes_lists, NUL)[k - 1]),
      size |-> Len(bytes_lists[k])]]

(* compress_bytes; what zstd makes of the bytes is known to zstd only. *)
Compressed(bytes, compression) ==
  [packed |-> compression # "none", bytes |-> bytes]

\* A hash of the files alone.
EmbedHashOfFiles(files, dsts, dirs, compression) ==
  Merged(files) \o NameOf[compression]

(* compute_embed_hash: the hash is as good as the bytes it is made of. *)
EmbedHash(files, dsts, dirs, compression) ==
  Merged(files) \o Merged(dsts) \o Merged(dirs) \o NameOf[compression]

(* generate_arrays: the values of each array in their order.  The first    *)
(* one gives an array its type; a value of another type, an empty one and  *)
(* an integer beyond 64 bits throw.                                        *)
ArrayIds == {config.arrays[k].id : k \in DOMAIN config.arrays}

ArraysValid ==
  \A k \in DOMAIN config.arrays :
    /\ config.arrays[k].type \in {"INT", "STRING"}
    /\ \A j \in 1..k : config.arrays[j].id = config.arrays[k].id =>
         config.arrays[j].type = config.arrays[k].type

Arrays ==
  [id \in ArrayIds |-> SelectSeq(config.arrays, LAMBDA a : a.id = id)]

Header ==
  [ids |-> file_ids, dsts |-> file_dsts, dirs |-> include_dirs,
   ranges |-> Ranges(loaded), size |-> Len(Merged(loaded)),
   compression |-> config.compression, arrays |-> Arrays,
   hash |-> EmbedHash(loaded, file_dsts, include_dirs, config.compression)]

-----------------------------------------------------------------------------
EmbedInit ==
  /\ config \in Configs
  /\ onDisk \in [Paths -> Contents]
  /\ stage = "rest"
  /\ loaded = <<>>
  /\ out = [f \in Writing |-> Missing]
  /\ torn = FALSE
  /\ built = Missing
  /\ builds = 0

(* The project registers other files, or the same ones in another way;     *)
(* this and changes of the files matter as long as there is a run to come. *)
Configure ==
  /\ stage = "rest"
  /\ builds < MaxBuilds
  /\ config' \in Configs
  /\ UNCHANGED <<onDisk, stage, loaded, out, torn, built, builds>>

Edit ==
  /\ stage = "rest"
  /\ builds < MaxBuilds
  /\ \E p \in Paths, content \in Contents \cup {Missing} :
       onDisk' = [onDisk EXCEPT ![p] = content]
  /\ UNCHANGED <<config, stage, loaded, out, torn, built, builds>>

Build ==
  /\ stage = "rest"
  /\ builds < MaxBuilds
  /\ builds' = builds + 1
  /\ stage' = "load"
  /\ loaded' = <<>>
  /\ UNCHANGED <<config, onDisk, out, torn, built>>

NextPath == file_paths[Len(loaded) + 1]

\* A file that cannot be read taken for whatever the buffer holds.
ReadableAlways(path) == TRUE

(* load_file_bytes *)
Readable(path) == onDisk[path] # Missing

Load ==
  /\ stage = "load"
  /\ Len(loaded) < Len(file_paths)
  /\ Readable(NextPath)
  /\ loaded' = Append(loaded, onDisk[NextPath])
  /\ UNCHANGED <<config, onDisk, stage, out, torn, built, builds>>

(* compress_bytes knows two compressions. *)
CompressionKnown == config.compression \in {"none", "zstd"}

Generate ==
  /\ stage = "load"
  /\ Len(loaded) = Len(file_paths)
  /\ CompressionKnown
  /\ ArraysValid
  /\ stage' = "header"
  /\ UNCHANGED <<config, onDisk, loaded, out, torn, built, builds>>

(* An exception, before anything is written. *)
GenerateThrows ==
  /\ stage = "load"
  /\ IF Len(loaded) < Len(file_paths) THEN ~Readable(NextPath)
     ELSE \/ ~CompressionKnown
          \/ ~ArraysValid
          \/ config.compression = "zstd" /\ "zstd" \in EmbedFaults
          \/ "io" \in EmbedFaults
  /\ stage' = "rest"
  /\ loaded' = <<>>
  /\ UNCHANGED <<config, onDisk, out, torn, built, builds>>

Made(f) ==
  CASE f = "header" -> Header
    [] f = "asm" -> "incbin"
    [] f = "bin" -> Compressed(Merged(loaded), config.compression)

AfterWrite == [header |-> "asm", asm |-> "bin", bin |-> "rest"]

(* The streams are not looked at: a file that comes out short is no error. *)
Write(f) ==
  /\ stage = f
  /\ \E written \in {Made(f)} \cup (IF "io" \in EmbedFaults THEN {Short} ELSE {}) :
       out' = [out EXCEPT ![f] = written]
  /\ stage' = AfterWrite[f]
  /\ torn' = (stage' # "rest" \/ \E g \in Writing : out'[g] = Short)
  /\ IF stage' = "rest"
     THEN /\ built' = [config |-> config, files |-> loaded, hash |-> Header.hash]
          /\ loaded' = <<>>
     ELSE UNCHANGED <<built, loaded>>
  /\ UNCHANGED <<config, onDisk, builds>>

Kill ==
  /\ "kill" \in EmbedFaults
  /\ stage # "rest"
  /\ stage' = "rest"
  /\ loaded' = <<>>
  /\ \/ UNCHANGED <<out, torn>>
     \/ /\ stage \in Writing
        /\ out' = [out EXCEPT ![stage] = Short]
        /\ torn' = TRUE
  /\ UNCHANGED <<config, onDisk, built, builds>>

(* The runs the bound allows are all over. *)
Rest ==
  /\ stage = "rest"
  /\ builds = MaxBuilds
  /\ UNCHANGED embedVars

EmbedNext ==
  \/ Configure \/ Edit \/ Build \/ Load \/ Generate \/ GenerateThrows \/ Kill
  \/ Rest
  \/ \E f \in Writing : Write(f)

EmbedSpec == EmbedInit /\ [][EmbedNext]_embedVars

-----------------------------------------------------------------------------
(* The program that is built with the outputs.                             *)

(* decompress_blob copies or unpacks, as the header says. *)
Decompressed == out["bin"].bytes

Cut(range) == SubSeq(Decompressed, range.offset + 1, range.offset + range.size)

Embedded == ~torn /\ built # Missing /\ out["header"] # Missing

EmbedTypeOK ==
  /\ config \in Configs
  /\ onDisk \in [Paths -> Contents \cup {Missing}]
  /\ stage \in {"rest", "load"} \cup Writing
  /\ Len(loaded) <= Len(config.files)
  /\ \A k \in DOMAIN loaded : loaded[k] \in Contents
  /\ torn \in BOOLEAN
  /\ builds \in 0..MaxBuilds

(* The index that the header gives a registered file leads to the bytes    *)
(* that file had in the last complete run, with a terminator after them,   *)
(* and to its destination: through the lists of the runner, the merging,   *)
(* the compression, and runs that have failed since without being cut off  *)
(* among their outputs.                                                    *)
FilesComeBack ==
  Embedded =>
    LET files == built.config.files
    IN  /\ Len(out["header"].ids) = Len(files)
        /\ out["bin"].packed = (out["header"].compression # "none")
        /\ Len(Decompressed) = out["header"].size
        /\ \A k \in DOMAIN files :
             LET range == out["header"].ranges[k]
             IN  /\ out["header"].ids[k] = files[k].id
                 /\ out["header"].dsts[k] = files[k].dest
                 /\ Cut(range) = built.files[k]
                 /\ Decompressed[range.offset + range.size + 1] = NUL

(* A complete run changes the hash of the header exactly if the bytes of a *)
(* file, a destination, an include directory or the compression are other  *)
(* ones (compute_embed_hash), provided that the number of files is the     *)
(* same and none holds a NUL: the hash is fed no lengths.                  *)
Described(b) ==
  <<b.files, [k \in DOMAIN b.config.files |-> b.config.files[k].dest],
    b.config.dirs, b.config.compression>>

HashFollowsContents ==
  [][built # Missing /\ Len(built.files) = Len(built'.files)
       /\ (\A k \in DOMAIN built.files : Text(built.files[k]) /\ Text(built'.files[k]))
     => (built.hash = built'.hash <=> Described(built) = Described(built'))]_built
=============================================================================
