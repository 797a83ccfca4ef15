-------------------------- MODULE MCMetadataTransfer --------------------------
\* Two firmwares: one with parameters and events, one with translated parameters and a
\* fallback whose CRC is not known.  Six files fit no cache of five, and none is evicted
\* between its use and the end of the request.
EXTENDS MetadataTransfer
CONSTANTS v1, v2

File(file, valid) == [ file |-> file, valid |-> valid ]

MCFirmware == {File("general1", TRUE), File("general2", TRUE)}

MCGeneral ==
    [g \in {"general1", "general2"} |->
        IF g = "general1"
        THEN [ param  |-> [NoUris EXCEPT !.metadata = File("param1", TRUE),
                                         !.fallback = File("param1", TRUE)],
               events |-> [NoUris EXCEPT !.metadata = File("events", TRUE)] ]
        ELSE [ param  |-> [NoUris EXCEPT !.metadata = File("param2", TRUE),
                                         !.fallback = File("param3", FALSE),
                                         !.translation = File("words2", TRUE)] ]]
================================================================================
