SPECIFICATION Spec
CONSTANTS
    ReportSize = 24
    Frames <- SomeFrames
    Noise <- SomeNoise
    Moments <- SomeMoments
    Temperatures <- SomeTemperatures
    Flags <- SomeFlags
    Protocols <- SomeProtocols
    Tenths <- SomeTenths
    Counts <- SomeCounts
    Intervals <- SomeIntervals
    OldBytes <- SomeOldBytes
    Extremes <- SomeExtremes
    Histories <- SomeHistories
    Placeholder <- SomePlaceholder
    Stores <- SomeStores
    Lasts <- SomeLasts
    Shown <- SomeShown
    Fields <- SomeFields
    Spans <- SomeSpans
INVARIANTS FramesTrusted RecordsDecoded ReadingsDecoded DatesRoundTrip CountTruthful SettingsRoundTrip
    StatusRead RecordsPlaced ViewsAgree FormKeepsInterval TimesReadBack
CHECK_DEADLOCK FALSE
