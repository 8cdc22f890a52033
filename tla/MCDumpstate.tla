---------------------------- MODULE MCDumpstate ----------------------------
(* The requests dumpstate is model-checked with.                           *)
EXTENDS Dumpstate

Api(modes) == [flow : {"api"}, mode : modes, flags : {{}}]
Cli(modes, flags) == [flow : {"cli"}, mode : modes, flags : flags]

LocalModes == Api(Modes \ {"REMOTE"})
FullMode == Api({"FULL"})

(* The flags the callers of the command line combine: bugreport (-s),      *)
(* bugreportz (-S -z -d), the init services, and ones that do not fit.     *)
FlagSets ==
  {{}, {"-h"}, {"-?"}, {"-h", "-?"}, {"show_header_only"}, {"use_socket"},
   {"use_socket", "do_zip_file"}, {"use_socket", "do_fb"},
   {"do_zip_file", "do_add_date", "use_control_socket"},
   {"do_zip_file", "do_add_date", "use_control_socket", "do_broadcast"},
   {"do_add_date", "use_control_socket"},
   {"do_fb", "do_vibrate"},
   {"do_zip_file", "do_add_date", "do_fb", "do_broadcast", "do_progress_updates"},
   {"do_zip_file", "do_add_date", "is_remote_mode", "do_broadcast"}}
CommandLines == Cli(Modes, FlagSets)

LocalRequests == LocalModes \cup CommandLines
=============================================================================
