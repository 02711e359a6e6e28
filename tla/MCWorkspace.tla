---------------------------- MODULE MCWorkspace ----------------------------
EXTENDS Workspace

MCJobs == {<<"mail", 1>>, <<"export", 1>>} \cup ({"purge"} \X (1 .. (MaxResumes + 2)))
MCUploaders == {<<"member", 0>>} \cup ({"mail"} \X (0 .. MaxStalls))
MCPaths == ({"document"} \X (1 .. MaxRecords)) \cup {<<"archive", 1>>}

\* Uploads and mail with each other; each of the parts with crashes, and with the
\* end of the workspace.
MCLoads == {{"mail", "upload"}, {"mail", "crash"}, {"upload", "crash"},
            {"upload", "end"}, {"export", "end", "crash"}}
=============================================================================
