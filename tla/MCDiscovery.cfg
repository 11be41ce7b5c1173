SPECIFICATION SourceSpec
CONSTANTS
    Adapter = "next_link"
    Runs = {r1, r2}
    PageSize = 2
    FrontSize = 1
    MaxEntries = 5
    Date <- MCDate
    Overlap = 3
    NoDate = NoDate
    Items = {}
    Urls = {}
    UrlOf <- MCUrlOf
    Contents = {}
    Unreadable = {}
    Refusals = {}
    Fetchers = {}
    Parsers = {}
    MaxFetches = 0
    MaxParses = 0
    None = None
INVARIANT CursorsCover
PROPERTY PublishedIsFound
