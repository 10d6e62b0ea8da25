------------------------------- MODULE ClFile -------------------------------
(***************************************************************************)
(* The file that outlives a restart, src/src/common/cl_file.c: a header    *)
(* with magic bytes and a version, and an object.  A file that is missing  *)
(* or shorter than that cannot be loaded, nor can one with another header. *)
(* path says whether directory and file name fit the buffer they are       *)
(* joined in; if not, the file is never opened.                            *)
(*                                                                         *)
(* The file itself is the business of the operating system                 *)
(* (clal_save_file(), clal_clear_file(), external to the repository): a    *)
(* save succeeds, fails and leaves the old file, or is interrupted and     *)
(* leaves a file that is too short.                                        *)
(***************************************************************************)

SaveOutcomes == {"SAVED", "FAILED", "TORN"}

FileWith(object) ==
    [path |-> TRUE, complete |-> TRUE, magic |-> TRUE, version |-> TRUE,
     object |-> object]

NoFile == [path |-> TRUE, complete |-> FALSE]

(* A file of another program, and one of another version of this.          *)
ForeignFiles(object) ==
    {[FileWith(object) EXCEPT !.magic = FALSE],
     [FileWith(object) EXCEPT !.version = FALSE]}

Unreachable == [path |-> FALSE]

cl_file_join_directory_filename(file) == file.path

clal_save_file(file, object, outcome) ==
    CASE outcome = "SAVED" -> FileWith(object)
      [] outcome = "FAILED" -> file
      [] outcome = "TORN" -> NoFile

(* Can the file be loaded?  Then its object is what was saved.             *)
cl_file_load(file) ==
    /\ cl_file_join_directory_filename(file)
    /\ file.complete
    /\ file.magic
    /\ file.version

cl_file_save(file, object, outcome) ==
    IF cl_file_join_directory_filename(file)
    THEN clal_save_file(file, object, outcome)
    ELSE file

(* Fault variant: a file that cannot be loaded is left alone.              *)
SavedOnlyIfLoaded(file, object, outcome) ==
    IF cl_file_load(file) /\ file.object # object
    THEN cl_file_save(file, object, outcome)
    ELSE file

cl_file_save_if_modified(file, object, outcome) ==
    IF cl_file_load(file) /\ file.object = object
    THEN file
    ELSE cl_file_save(file, object, outcome)

cl_file_clear(file) ==
    IF cl_file_join_directory_filename(file) THEN NoFile ELSE file
=============================================================================
