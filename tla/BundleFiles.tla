------------------------------ MODULE BundleFiles ------------------------------
(* A collected bundle as the receivers read it: a zip archive (on disk or in     *)
(* memory) or an unpacked directory (src/receiver/archive.rs, archive/file.rs,   *)
(* archive/bytes.rs, directory.rs, the bundle half of receiver/mod.rs), and the  *)
(* candidate file names of a source (processor/diagnostic/data_source.rs).       *)
(*                                                                               *)
(* A path is the sequence of its components; an empty component is the doubled   *)
(* slash of faulty ECK bundles. A bundle is a sequence of entries, the first of  *)
(* which decides where an archive's files are looked for; unpacking it loses the *)
(* order and the doubled slashes. A file holds "json" (good), "empty" (nothing   *)
(* but whitespace), "broken" (not the JSON expected) or is "locked" (cannot be   *)
(* opened).                                                                      *)
EXTENDS Naturals, Sequences, FiniteSets, SequencesExt

CONSTANT Dotted   \* the path components Path::extension finds an extension in

Missing == <<"missing">>
Failed == <<"failed">>
NoKey == ""

\* A directory entry has the content "dir".
IsFile(e) == e.content # "dir"

(* ---------------------------- where a file is ------------------------------- *)
Subdirectories == {"cat", "commercial", "docker", "syscalls", "java", "logs"}
Pop(path) == IF path = <<>> THEN path ELSE Front(path)

\* trim_to_working_directory
TrimToWorkingDirectory(path) ==
  LET dir == IF path # <<>> /\ Last(path) \in Dotted THEN Pop(path) ELSE path
  IN IF dir # <<>> /\ Last(dir) \in Subdirectories THEN Pop(dir) ELSE dir

\* PathBuf drops doubled slashes, the name of an entry in an archive does not.
Normal(path) == SelectSeq(path, LAMBDA c : c # "")

\* ZipArchive::by_name; an entry that cannot be opened is an error like a
\* missing one.
ByName(bundle, path) ==
  \E i \in DOMAIN bundle : bundle[i].path = path /\ IsFile(bundle[i]) /\ bundle[i].content # "locked"

\* resolve_archive_path: an archive without entries is an error of by_index(0).
ResolveArchivePath(bundle, subdir, file) ==
  LET workdir == TrimToWorkingDirectory(Normal(bundle[1].path))
      path == workdir \o subdir \o file
      faulty == workdir \o subdir \o <<"">> \o file
  IN IF bundle = <<>> THEN Failed
     ELSE IF ByName(bundle, path) THEN path
     ELSE IF subdir # <<>> /\ ByName(bundle, faulty) THEN faulty
     ELSE Missing

\* File::open below the path and working directory of the receiver.
OpenInDirectory(bundle, root, subdir, file) ==
  LET path == root \o SelectSeq(subdir, LAMBDA c : c # ".") \o file
      found == {i \in DOMAIN bundle : Normal(bundle[i].path) = path /\ IsFile(bundle[i])}
  IN IF found = {} THEN Missing
     ELSE IF bundle[CHOOSE i \in found : TRUE].content = "locked" THEN Failed ELSE path

Locate(form, bundle, root, subdir, file) ==
  IF form = "directory" THEN OpenInDirectory(bundle, root, subdir, file)
  ELSE ResolveArchivePath(bundle, subdir, file)

\* The content an opened path has; source_has_json tells "empty" from the rest.
ContentAt(form, bundle, path) ==
  bundle[CHOOSE i \in DOMAIN bundle :
           /\ IsFile(bundle[i])
           /\ IF form = "directory" THEN Normal(bundle[i].path) = path ELSE bundle[i].path = path].content

(* ------------------------------- what a source is --------------------------- *)
\* A source is [name, aliases, registry]; a registry entry is the file name it
\* sets ("" for none), and the subdirectory of the bundle (<<>> for none).
\* get_source: the name, or the first alias that is a key.
GetSource(registry, name, aliases) ==
  IF name \in DOMAIN registry THEN name
  ELSE IF \E i \in DOMAIN aliases : aliases[i] \in DOMAIN registry
  THEN SelectSeq(aliases, LAMBDA a : a \in DOMAIN registry)[1]
  ELSE NoKey

\* Source::get_file_path, Source::get_derived_file_path (json for every name).
DerivedFilePath(entry, name) == Append(entry.subdir, name)
FilePath(entry, name) == IF entry.filename # "" THEN Append(entry.subdir, entry.filename) ELSE DerivedFilePath(entry, name)

\* resolve_source_file_path
SourceFilePath(registry, name, aliases) ==
  LET key == GetSource(registry, name, aliases)
  IN IF key = NoKey THEN Failed ELSE FilePath(registry[key], key)

AddNew(list, p) == IF Contains(list, p) THEN list ELSE Append(list, p)

\* candidate_source_file_paths
CandidatePaths(registry, name, aliases) ==
  LET key == GetSource(registry, name, aliases)
      entry == registry[key]
      ofAlias(a) == IF a \in DOMAIN registry THEN FilePath(registry[a], a) ELSE FilePath(entry, a)
  IN IF key = NoKey THEN Failed
     ELSE FoldLeft(LAMBDA list, a : AddNew(list, ofAlias(a)),
                   AddNew(<<FilePath(entry, key)>>, DerivedFilePath(entry, key)), aliases)

(* ------------------------------------ reading ------------------------------- *)
\* One turn of the loop over the candidates; the last error is what is returned
\* when none of them decides.
TryCandidate(st, form, bundle, root, subdir, file) ==
  LET path == Locate(form, bundle, root, subdir, file)
      content == ContentAt(form, bundle, path)
  IN IF st.done THEN st
     ELSE IF path = Failed THEN [done |-> TRUE, result |-> Failed]
     ELSE IF path = Missing \/ content = "empty" THEN [st EXCEPT !.result = Missing]
     ELSE [done |-> TRUE, result |-> IF content = "json" THEN Normal(path) ELSE Failed]

\* Receive::get of the three receivers: the path of the file read, Missing (an
\* error missing_source_error recognises) or Failed.
Get(form, bundle, root, subdir, paths) ==
  IF paths = Failed THEN Failed
  ELSE FoldLeft(LAMBDA st, p : TryCandidate(st, form, bundle, root, subdir, p),
                [done |-> FALSE, result |-> Missing], paths).result

\* get_raw_response: the first candidate found, whatever it holds.
GetRaw(form, bundle, root, subdir, paths) ==
  LET located == [i \in DOMAIN paths |-> Locate(form, bundle, root, subdir, paths[i])]
      found == SelectSeq(located, LAMBDA p : p # Missing)
  IN IF found = <<>> THEN Missing ELSE IF found[1] = Failed THEN Failed ELSE Normal(found[1])

\* get_stream_from_archive, DirectoryReceiver::get_stream: only the file the
\* registry names; every failure is an item of the stream.
GetStream(form, bundle, root, subdir, path) ==
  LET at == IF path = Failed THEN Failed ELSE Locate(form, bundle, root, subdir, path)
  IN IF at \in {Missing, Failed} THEN at
     ELSE IF ContentAt(form, bundle, at) = "json" THEN Normal(at) ELSE Failed

\* archive_has_dir: `dir` may be any component after the subdirectory, which
\* itself may start at the first or at the second component.
FirstMatch(names, part) ==
  LET at == {p \in 0 .. Len(names) - Len(part) : SubSeq(names, p + 1, p + Len(part)) = part}
  IN IF at = {} THEN 99 ELSE CHOOSE p \in at : \A q \in at : p <= q
HasBundleDir(form, bundle, root, subdir, dir) ==
  IF form = "directory"
  THEN LET path == root \o SelectSeq(subdir, LAMBDA c : c # ".") \o <<dir>>
       IN \E i \in DOMAIN bundle : LET names == Normal(bundle[i].path)
                                   IN IsPrefix(path, names) /\ (Len(names) > Len(path) \/ ~IsFile(bundle[i]))
  ELSE \E i \in DOMAIN bundle :
         LET names == Normal(bundle[i].path)
             at == IF subdir = <<>> THEN 0 ELSE FirstMatch(names, subdir)
             start == at + Len(subdir)
         IN /\ at <= 1
            /\ \E n \in start + 1 .. Len(names) : names[n] = dir /\ (n < Len(names) \/ ~IsFile(bundle[i]))

(* ------------------------- the receiver and its children -------------------- *)
\* validate_relative_subdir: `path` is what Path::components yields.
ValidSubdir(path) == path # <<>> /\ \A i \in DOMAIN path : path[i] \notin {"..", "/"}

\* A receiver is its working directory and the product its sources are taken
\* from, "" until a manifest says. clone_for_subdir starts without a product.
CloneForSubdir(receiver, sub) ==
  IF ValidSubdir(sub) THEN [subdir |-> sub, product |-> ""] ELSE [receiver EXCEPT !.product = "failed"]

\* source_application_key: an application without sources has none.
SourceKey(application) == IF application \in {"elasticsearch", "kibana", "logstash"} THEN application ELSE NoKey

\* set_source_application_from_manifest and set_source_product: set once.
SetSourceProduct(receiver, application) ==
  IF SourceKey(application) \in {NoKey, receiver.product} THEN receiver
  ELSE [receiver EXCEPT !.product = IF @ = "" THEN application ELSE "failed"]

(* ---------------------------------- properties ------------------------------ *)
\* An archive the collectors write: all below one root, and its first entry
\* leads there.
WellFormed(bundle, root) ==
  /\ bundle # <<>> /\ root # <<>> /\ Last(root) \notin Subdirectories
  /\ \A i \in DOMAIN bundle : IsPrefix(root, bundle[i].path) /\ (IsFile(bundle[i]) <=> Last(bundle[i].path) \in Dotted)
  /\ TrimToWorkingDirectory(Normal(bundle[1].path)) = root

\* The file below the root, once unpacked.
Unpacked(bundle, root, subdir, file) ==
  {bundle[i].content : i \in {n \in DOMAIN bundle : Normal(bundle[n].path) = root \o subdir \o file /\ IsFile(bundle[n])}}

\* What reading must give: the first candidate that is there and holds something
\* decides. A file that cannot be opened counts as absent in an archive.
Expected(form, bundle, root, subdir, paths) ==
  LET holds(i) == Unpacked(bundle, root, subdir, paths[i])
      silent == IF form = "directory" THEN {{}, {"empty"}} ELSE {{}, {"empty"}, {"locked"}}
      deciding == {i \in DOMAIN paths : holds(i) \notin silent}
      first == CHOOSE i \in deciding : \A j \in deciding : i <= j
  IN IF deciding = {} THEN Missing
     ELSE IF holds(first) = {"json"} THEN root \o subdir \o paths[first] ELSE Failed

\* The same bundle gives the same reading zipped and unpacked, for the bundle
\* and for each diagnostic included in it; the stream never reads another file
\* than the full load it replaces; a platform indicator seen in the directory is
\* seen in the archive.
SameInEitherForm(bundle, root, subdir, registry, name, aliases) ==
  LET paths == CandidatePaths(registry, name, aliases)
      single == SourceFilePath(registry, name, aliases)
  IN WellFormed(bundle, root) =>
       /\ paths # Failed => \A form \in {"archive", "directory"} :
            /\ Get(form, bundle, root, subdir, paths) = Expected(form, bundle, root, subdir, paths)
            /\ Get(form, bundle, root, subdir, paths) # Missing => GetRaw(form, bundle, root, subdir, paths) # Missing
            /\ LET streamed == GetStream(form, bundle, root, subdir, single)
               IN streamed \notin {Missing, Failed} => streamed = Get(form, bundle, root, subdir, paths)
       /\ HasBundleDir("directory", bundle, root, subdir, "syscalls") => HasBundleDir("archive", bundle, root, subdir, "syscalls")

\* A bundle of one application may hold diagnostics of others: each is read with
\* the sources of its own application, whatever its parent was opened for, its
\* product is settled once, and no path leads out of the parent.
ChildReadsOwnSources(sub, parentApp, app) ==
  LET parent == SetSourceProduct([subdir |-> <<>>, product |-> ""], parentApp)
      child == SetSourceProduct(CloneForSubdir(parent, sub), app)
  IN /\ child.product # "failed" => /\ child.product \in {"", app} /\ SetSourceProduct(child, app) = child
                                   /\ \A i \in DOMAIN child.subdir : child.subdir[i] \notin {"..", "/"}
     /\ child.product = "failed" => ~ValidSubdir(sub)
================================================================================
